---- MODULE Spec2Model ----
(***************************************************************************)
(* Model of Pico-Flash-Utility.c: the sector rewrite engine (flash_erase,  *)
(* flash_write), the blank scanner (flash_blank_check), the burn-in test   *)
(* (flash_test, erase_all_flash), the menu options that reach the flash    *)
(* (display_complete_log, erase_specific_sector) and the 100 ms timer      *)
(* callback.                                                               *)
(*                                                                         *)
(* The flash geometry is scaled down: a sector is 2 blank-check chunks, a  *)
(* chunk is BLANK_CHUNK bytes, the device has NumSectors sectors and the   *)
(* protected sector is sector ProtSectorIndex.  Bytes are integers 0..255. *)
(***************************************************************************)
EXTENDS Integers, Sequences, FiniteSets, TLC

(* ------------------------------ bounds -------------------------------- *)
\* bytes scanned per blank-check line (16 in the source)
BLANK_CHUNK == 2
\* sectors of the device (512 in the source)
NumSectors == 3
\* index of the sector holding the manufacturing test results (0x7F in the source)
ProtSectorIndex == 1
\* bytes of the manufacturing test results (107 in the source)
TEST_RESULT_SIZE == 3
\* UINT32 offsets wrap at this value (2^32 in the source; scaled to fit the
\* model checker's integers)
U32 == 1073741824

(* ------------------------- program constants -------------------------- *)
FLAG_OFF == 0
FLAG_ON == 255
MODE_UNDEFINED == 0
MODE_COMPLETE_LOG == 6
MODE_ERASE_SECTOR == 7
MODE_ERASE_WHOLE_FLASH == 8
MODE_BLANK_CHECK == 9
MODE_FLASH_TEST == 10
TOTAL_CYCLES == 5
\* 0x20000000 and 0x20041FFF, the limits of the RAM address space
RAM_LOW == 536870912
RAM_HIGH == 537141247
\* the erased value of a flash cell
ERASED == 255
\* largest UINT16, the type of DataSize
U16MAX == 65535

FLASH_SECTOR_SIZE == 2 * BLANK_CHUNK
FlashSize == NumSectors * FLASH_SECTOR_SIZE
\* 0x7F000 in the source
PROT_SECTOR_OFFSET == ProtSectorIndex * FLASH_SECTOR_SIZE
\* EndOffset, the last offset of the flash region (0x1FFFFF in the source)
EndOffset == FlashSize - 1

SectorIdx == 0 .. (FLASH_SECTOR_SIZE - 1)
FlashIdx == 0 .. (FlashSize - 1)
ProtIdx == 0 .. (TEST_RESULT_SIZE - 1)
\* flash offsets of the protected bytes
ProtRange == {PROT_SECTOR_OFFSET + i : i \in ProtIdx}

VARIABLES
  flash,          \* the flash region, offset -> byte
  FlashOldData,   \* staging buffer, one sector
  FlashNewData,   \* caller-side buffer, one sector
  heapCorrupt,    \* a store went past the end of FlashOldData
  PRIMASK,        \* 1 when interrupts are masked
  timerPending,   \* the 100 ms alarm has fired and its callback has not run yet
  timerArmed,     \* the repeating timer is still installed
  tm,             \* the statics of timer_callback_ms
  led,            \* PICO_LED output
  SoftwareMode,
  WriteCycle,
  mainAddr,       \* address of main()
  pc,             \* position of the main context
  req,            \* the call under examination
  fw,             \* frame of flash_write
  fe,             \* frame of flash_erase
  rc,             \* value returned by flash_write
  hwLog,          \* hardware operations issued since the call was entered
  flashAtEntry,   \* the flash region when the call was entered
  maskAtEntry,    \* PRIMASK when the call was entered
  bc,             \* locals of flash_blank_check and the lines it has displayed
  ft,             \* locals of flash_test
  ea,             \* locals of erase_all_flash
  ui,             \* what the user typed: String, and the offset parsed from it
  align           \* locals of an alignment loop while it runs

vars == <<flash, FlashOldData, FlashNewData, heapCorrupt, PRIMASK, timerPending,
          timerArmed, tm, led, SoftwareMode, WriteCycle, mainAddr, pc, req, fw, fe, rc,
          hwLog, flashAtEntry, maskAtEntry, bc, ft, ea, ui, align>>

timerVars == <<timerPending, timerArmed, tm, led>>
modeVars == <<SoftwareMode, WriteCycle, mainAddr>>

(* ------------------------- hardware primitives ------------------------ *)
RECURSIVE BitAnd(_, _)
BitAnd(a, b) ==
  IF a = 0 \/ b = 0 THEN 0
  ELSE (IF a % 2 = 1 /\ b % 2 = 1 THEN 1 ELSE 0) + 2 * BitAnd(a \div 2, b \div 2)

\* variant: the erase runs on to the end of the device
EraseSector_RunsOn(fl, off) == [a \in FlashIdx |-> IF off <= a THEN ERASED ELSE fl[a]]

\* flash_range_erase(off, FLASH_SECTOR_SIZE) on a sector of the device
EraseSector(fl, off) ==
  [a \in FlashIdx |-> IF off <= a /\ a < off + FLASH_SECTOR_SIZE THEN ERASED ELSE fl[a]]

\* The outcomes of flash_range_erase.  An offset past the end of the device
\* either addresses no cell or wraps around onto the device.
HwEraseOutcomes(fl, off) ==
  IF off + FLASH_SECTOR_SIZE <= FlashSize
    THEN {EraseSector(fl, off)}
    ELSE {fl, EraseSector(fl, off % FlashSize)}

\* flash_range_program(off, buf, FLASH_SECTOR_SIZE): programming clears bits only
HwProgram(fl, off, buf) ==
  [a \in FlashIdx |->
     IF off <= a /\ a < off + FLASH_SECTOR_SIZE THEN BitAnd(fl[a], buf[a - off]) ELSE fl[a]]

\* variant: the mask is read but interrupts are left as they were
SaveAndDisable_Unmasked(mask) == mask
\* variant: interrupts are enabled on exit whatever the saved mask
RestoreInterrupts_AlwaysEnable(saved) == 0

\* save_and_disable_interrupts() masks; restore_interrupts(m) puts m back
SaveAndDisable(mask) == 1
RestoreInterrupts(saved) == saved

(* --------------------------- flash_write ------------------------------ *)
\* variant: the sector offset is moved up to the next boundary
RECURSIVE WriteAlign_RoundsUp(_, _)
WriteAlign_RoundsUp(so, fo) ==
  IF so % FLASH_SECTOR_SIZE # 0 THEN WriteAlign_RoundsUp(so + 1, fo + 1) ELSE <<so, fo>>

\* the alignment loop: --SectorOffset, ++FlashMemoryOffset until aligned
RECURSIVE WriteAlign(_, _)
WriteAlign(so, fo) ==
  IF so % FLASH_SECTOR_SIZE # 0 THEN WriteAlign(so - 1, fo + 1) ELSE <<so, fo>>

\* variant: the boundary test forgets the offset inside the sector
CrossesBoundary_SizeOnly(fo, size) == size > FLASH_SECTOR_SIZE

\* the boundary test of flash_write
CrossesBoundary(fo, size) == fo + size > FLASH_SECTOR_SIZE

\* byte i of the caller's data
DataAt(d, buf, i) ==
  IF d.kind = "buf" THEN buf[i] ELSE IF i % 2 = 0 THEN d.d0 ELSE d.d1

\* copy of the current sector into the staging buffer
SectorCopy(fl, so) == [i \in SectorIdx |-> fl[so + i]]

\* Archive[]: the manufacturing test results read from the sector
ArchiveOf(fl, so) == [i \in ProtIdx |-> fl[so + i]]

\* variant: the copy runs to the end of the sector whatever the size
Overlay_WholeSector(old, fo, d, buf, size) ==
  [i \in SectorIdx |-> IF fo <= i THEN DataAt(d, buf, i - fo) ELSE old[i]]

\* memcpy(&FlashOldData[FlashMemoryOffset], Data, DataSize)
Overlay(old, fo, d, buf, size) ==
  [i \in SectorIdx |-> IF fo <= i /\ i < fo + size THEN DataAt(d, buf, i - fo) ELSE old[i]]

\* index at which Archive[i] is put back into the staging buffer
RestoreIndex(fo, i) == fo + i

\* the restore loop, for the stores that land inside the staging buffer
RestoreArchive(img, fo, arch) ==
  [i \in SectorIdx |->
     IF \E j \in ProtIdx : RestoreIndex(fo, j) = i
       THEN arch[CHOOSE j \in ProtIdx : RestoreIndex(fo, j) = i]
       ELSE img[i]]

\* the stores of the restore loop that land past the end of the staging buffer
Spill(fo, arch) ==
  [k \in {RestoreIndex(fo, j) - FLASH_SECTOR_SIZE :
            j \in {jj \in ProtIdx : RestoreIndex(fo, jj) >= FLASH_SECTOR_SIZE}} |->
     arch[CHOOSE j \in ProtIdx : RestoreIndex(fo, j) - FLASH_SECTOR_SIZE = k]]

\* variant: no sector is taken for the protected one
IsProtectedSector_Never(so) == FALSE

IsProtectedSector(so) == so = PROT_SECTOR_OFFSET

\* the sector image flash_write programs
StagingImage(fl, so, fo, d, buf, size) ==
  LET old == SectorCopy(fl, so)
      img == Overlay(old, fo, d, buf, size)
  IN IF IsProtectedSector(so) THEN RestoreArchive(img, fo, ArchiveOf(fl, so)) ELSE img

\* what the stray stores can do to the buffer allocated after FlashOldData
SpillOutcomes(newbuf, sp) ==
  {newbuf, [i \in SectorIdx |-> IF i \in DOMAIN sp THEN sp[i] ELSE newbuf[i]]}


\* variant: flash_write starts its hardware section over instead of returning
ReturnPc_Retry(caller) == "fw_mask"

\* value produced by "return" of flash_write
ReturnPc(caller) == IF caller = "flash_erase" THEN "fe_ret" ELSE "done"

\* lines 1542-1592: split the offset, then refuse a span that leaves the sector
FlashWriteReject ==
  /\ pc = "fw_entry"
  /\ LET al == WriteAlign(fw.FlashMemoryOffset, 0)
     IN /\ CrossesBoundary(al[2], fw.DataSize)
        /\ fw' = [fw EXCEPT !.SectorOffset = al[1], !.FlashMemoryOffset = al[2]]
  /\ rc' = 1
  /\ pc' = ReturnPc(fw.caller)
  /\ UNCHANGED <<flash, FlashOldData, FlashNewData, heapCorrupt, PRIMASK, timerVars,
                 modeVars, req, fe, hwLog, flashAtEntry, maskAtEntry, bc, ft, ea, ui,
                 align>>

\* lines 1542-1655: split the offset and build the sector image in FlashOldData
FlashWriteStage ==
  /\ pc = "fw_entry"
  /\ LET al == WriteAlign(fw.FlashMemoryOffset, 0)
         so == al[1]
         fo == al[2]
         sp == IF IsProtectedSector(so) THEN Spill(fo, ArchiveOf(flash, so)) ELSE << >>
     IN /\ ~CrossesBoundary(fo, fw.DataSize)
        /\ fw' = [fw EXCEPT !.SectorOffset = so, !.FlashMemoryOffset = fo]
        /\ FlashOldData' = StagingImage(flash, so, fo, fw.Data, FlashNewData, fw.DataSize)
        /\ IF DOMAIN sp = {}
             THEN UNCHANGED <<FlashNewData, heapCorrupt>>
             ELSE /\ heapCorrupt' = TRUE
                  /\ FlashNewData' \in SpillOutcomes(FlashNewData, sp)
  /\ pc' = "fw_mask"
  /\ UNCHANGED <<flash, PRIMASK, timerVars, modeVars, req, fe, rc, hwLog,
                 flashAtEntry, maskAtEntry, bc, ft, ea, ui, align>>

\* line 1674: InterruptMask = save_and_disable_interrupts()
FlashWriteMask ==
  /\ pc = "fw_mask"
  /\ fw' = [fw EXCEPT !.InterruptMask = PRIMASK]
  /\ PRIMASK' = SaveAndDisable(PRIMASK)
  /\ pc' = "fw_erase"
  /\ UNCHANGED <<flash, FlashOldData, FlashNewData, heapCorrupt, timerVars, modeVars,
                 req, fe, rc, hwLog, flashAtEntry, maskAtEntry, bc, ft, ea, ui, align>>

\* line 1677: flash_range_erase(SectorOffset, FLASH_SECTOR_SIZE)
FlashWriteHwErase ==
  /\ pc = "fw_erase"
  /\ flash' \in HwEraseOutcomes(flash, fw.SectorOffset)
  /\ hwLog' = Append(hwLog, [op |-> "erase", off |-> fw.SectorOffset, masked |-> PRIMASK])
  /\ pc' = "fw_program"
  /\ UNCHANGED <<FlashOldData, FlashNewData, heapCorrupt, PRIMASK, timerVars, modeVars,
                 req, fw, fe, rc, flashAtEntry, maskAtEntry, bc, ft, ea, ui, align>>

\* line 1680: flash_range_program(SectorOffset, FlashOldData, FLASH_SECTOR_SIZE)
FlashWriteHwProgram ==
  /\ pc = "fw_program"
  /\ flash' = HwProgram(flash, fw.SectorOffset, FlashOldData)
  /\ hwLog' = Append(hwLog, [op |-> "program", off |-> fw.SectorOffset, masked |-> PRIMASK])
  /\ pc' = "fw_restore"
  /\ UNCHANGED <<FlashOldData, FlashNewData, heapCorrupt, PRIMASK, timerVars, modeVars,
                 req, fw, fe, rc, flashAtEntry, maskAtEntry, bc, ft, ea, ui, align>>

\* lines 1683-1693: restore_interrupts(InterruptMask); return 0
FlashWriteReturn ==
  /\ pc = "fw_restore"
  /\ PRIMASK' = RestoreInterrupts(fw.InterruptMask)
  /\ rc' = 0
  /\ pc' = ReturnPc(fw.caller)
  /\ UNCHANGED <<flash, FlashOldData, FlashNewData, heapCorrupt, timerVars, modeVars,
                 req, fw, fe, hwLog, flashAtEntry, maskAtEntry, bc, ft, ea, ui, align>>

(* --------------------------- flash_erase ------------------------------ *)
\* the alignment loop: ++FlashMemoryOffset (UINT32) until aligned
RECURSIVE EraseAlign(_)
EraseAlign(off) ==
  IF off % FLASH_SECTOR_SIZE # 0 THEN EraseAlign((off + 1) % U32) ELSE off

\* variant: the sector image is cleared to 0x00
AllErased_Zeroed == [i \in SectorIdx |-> 0]

\* memset(FlashNewData, 0xFF, FLASH_SECTOR_SIZE)
AllErased == [i \in SectorIdx |-> ERASED]

\* lines 1198-1223: the protected sector is rewritten through flash_write
FlashEraseDelegate ==
  /\ pc = "fe_entry"
  /\ IsProtectedSector(EraseAlign(fe.FlashMemoryOffset))
  /\ fe' = [fe EXCEPT !.FlashMemoryOffset = EraseAlign(fe.FlashMemoryOffset)]
  /\ FlashNewData' = AllErased
  /\ fw' = [FlashMemoryOffset |-> PROT_SECTOR_OFFSET, SectorOffset |-> 0,
            Data |-> [kind |-> "buf", d0 |-> 0, d1 |-> 0],
            DataSize |-> FLASH_SECTOR_SIZE, InterruptMask |-> 0,
            caller |-> "flash_erase"]
  /\ pc' = "fw_entry"
  /\ UNCHANGED <<flash, FlashOldData, heapCorrupt, PRIMASK, timerVars, modeVars, req,
                 rc, hwLog, flashAtEntry, maskAtEntry, bc, ft, ea, ui, align>>

\* lines 1198-1210, 1224: any other sector takes the raw erase
FlashErasePlain ==
  /\ pc = "fe_entry"
  /\ ~IsProtectedSector(EraseAlign(fe.FlashMemoryOffset))
  /\ fe' = [fe EXCEPT !.FlashMemoryOffset = EraseAlign(fe.FlashMemoryOffset)]
  /\ pc' = "fe_mask"
  /\ UNCHANGED <<flash, FlashOldData, FlashNewData, heapCorrupt, PRIMASK, timerVars,
                 modeVars, req, fw, rc, hwLog, flashAtEntry, maskAtEntry, bc, ft, ea, ui,
                 align>>

\* line 1227: InterruptMask = save_and_disable_interrupts()
FlashEraseMask ==
  /\ pc = "fe_mask"
  /\ fe' = [fe EXCEPT !.InterruptMask = PRIMASK]
  /\ PRIMASK' = SaveAndDisable(PRIMASK)
  /\ pc' = "fe_erase"
  /\ UNCHANGED <<flash, FlashOldData, FlashNewData, heapCorrupt, timerVars, modeVars,
                 req, fw, rc, hwLog, flashAtEntry, maskAtEntry, bc, ft, ea, ui, align>>

\* line 1230: flash_range_erase(FlashMemoryOffset, FLASH_SECTOR_SIZE)
FlashEraseHwErase ==
  /\ pc = "fe_erase"
  /\ flash' \in HwEraseOutcomes(flash, fe.FlashMemoryOffset)
  /\ hwLog' = Append(hwLog, [op |-> "erase", off |-> fe.FlashMemoryOffset, masked |-> PRIMASK])
  /\ pc' = "fe_restore"
  /\ UNCHANGED <<FlashOldData, FlashNewData, heapCorrupt, PRIMASK, timerVars, modeVars,
                 req, fw, fe, rc, flashAtEntry, maskAtEntry, bc, ft, ea, ui, align>>

\* lines 1233-1236: restore_interrupts(InterruptMask); return
FlashEraseRestore ==
  /\ pc = "fe_restore"
  /\ PRIMASK' = RestoreInterrupts(fe.InterruptMask)
  /\ pc' = "done"
  /\ UNCHANGED <<flash, FlashOldData, FlashNewData, heapCorrupt, timerVars, modeVars,
                 req, fw, fe, rc, hwLog, flashAtEntry, maskAtEntry, bc, ft, ea, ui,
                 align>>

\* lines 1222-1236: flash_write has returned into flash_erase, which returns
FlashEraseReturn ==
  /\ pc = "fe_ret"
  /\ pc' = "done"
  /\ UNCHANGED <<flash, FlashOldData, FlashNewData, heapCorrupt, PRIMASK, timerVars,
                 modeVars, req, fw, fe, rc, hwLog, flashAtEntry, maskAtEntry, bc, ft, ea,
                 ui, align>>

(* ------------------------- timer_callback_ms -------------------------- *)
\* ticks between two blink bursts
BLINK_PERIOD == 15 * 10

\* variant: the burst stops one blink short
BlinkStep_OneShort(t, l, m, wc) ==
  IF t.FlagLedStatus = FLAG_ON
    THEN IF m >= 2
           THEN IF t.CycleCount >= wc
                  THEN <<[t EXCEPT !.FlagLedStatus = FLAG_OFF, !.MSecCounter = 0,
                                   !.CycleCount = 0, !.FlagCurrentBlink = FLAG_OFF], FALSE>>
                  ELSE <<[t EXCEPT !.FlagLedStatus = FLAG_OFF, !.MSecCounter = 0], FALSE>>
           ELSE <<[t EXCEPT !.MSecCounter = m], l>>
    ELSE IF m >= 3
           THEN <<[t EXCEPT !.FlagLedStatus = FLAG_ON, !.MSecCounter = 0,
                            !.CycleCount = (t.CycleCount + 1) % 65536], TRUE>>
           ELSE <<[t EXCEPT !.MSecCounter = m], l>>

\* the blink section of the callback (lines 1803-1834), entered with counter m
BlinkStep(t, l, m, wc) ==
  IF t.FlagLedStatus = FLAG_ON
    THEN IF m >= 2
           THEN IF t.CycleCount >= wc + 1
                  THEN <<[t EXCEPT !.FlagLedStatus = FLAG_OFF, !.MSecCounter = 0,
                                   !.CycleCount = 0, !.FlagCurrentBlink = FLAG_OFF], FALSE>>
                  ELSE <<[t EXCEPT !.FlagLedStatus = FLAG_OFF, !.MSecCounter = 0], FALSE>>
           ELSE <<[t EXCEPT !.MSecCounter = m], l>>
    ELSE IF m >= 3
           THEN <<[t EXCEPT !.FlagLedStatus = FLAG_ON, !.MSecCounter = 0,
                            !.CycleCount = (t.CycleCount + 1) % 65536], TRUE>>
           ELSE <<[t EXCEPT !.MSecCounter = m], l>>

\* variant: the callback blinks whatever SoftwareMode is
TimerCallback_AnyMode(t, l, mode, wc) ==
  LET m == (t.MSecCounter + 1) % 65536
  IN IF t.FlagCurrentBlink = FLAG_OFF
       THEN IF m >= BLINK_PERIOD
              THEN BlinkStep([t EXCEPT !.FlagCurrentBlink = FLAG_ON], l, 0, wc)
              ELSE <<[t EXCEPT !.MSecCounter = m], l>>
       ELSE BlinkStep(t, l, m, wc)

\* timer_callback_ms: the new statics and the new LED output
TimerCallback(t, l, mode, wc) ==
  IF mode # MODE_FLASH_TEST THEN <<t, l>>
  ELSE LET m == (t.MSecCounter + 1) % 65536
       IN IF t.FlagCurrentBlink = FLAG_OFF
            THEN IF m >= BLINK_PERIOD
                   THEN BlinkStep([t EXCEPT !.FlagCurrentBlink = FLAG_ON], l, 0, wc)
                   ELSE <<[t EXCEPT !.MSecCounter = m], l>>
            ELSE BlinkStep(t, l, m, wc)

\* variant: the callback asks for the timer to be stopped outside the flash test
CallbackReturns_StopsOutsideTest(mode) == mode = MODE_FLASH_TEST

\* the value timer_callback_ms returns: true at each of its return statements
CallbackReturns(mode) == TRUE

\* the 100 ms alarm of add_repeating_timer_ms fires (line 263)
TimerAlarm ==
  /\ timerArmed
  /\ ~timerPending
  /\ timerPending' = TRUE
  /\ UNCHANGED <<flash, FlashOldData, FlashNewData, heapCorrupt, PRIMASK, timerArmed, tm, led,
                 modeVars, pc, req, fw, fe, rc, hwLog, flashAtEntry, maskAtEntry, bc, ft, ea,
                 ui, align>>

\* variant: the callback counts the cycles itself
CallbackGlobals_CountsCycle(mode, wc, old, new) == <<mode, wc + 1, old, new>>

\* SoftwareMode, WriteCycle, FlashOldData and FlashNewData as timer_callback_ms
\* leaves them: no statement of lines 1775-1837 assigns any of them
CallbackGlobals(mode, wc, old, new) == <<mode, wc, old, new>>

\* the interrupt is taken, which needs interrupts unmasked, and the callback
\* runs; the timer stays installed when the callback returns true
TimerDispatch ==
  /\ timerPending
  /\ PRIMASK = 0
  /\ timerPending' = FALSE
  /\ timerArmed' = CallbackReturns(SoftwareMode)
  /\ LET r == TimerCallback(tm, led, SoftwareMode, WriteCycle)
     IN tm' = r[1] /\ led' = r[2]
  /\ LET g == CallbackGlobals(SoftwareMode, WriteCycle, FlashOldData, FlashNewData)
     IN /\ SoftwareMode' = g[1]
        /\ WriteCycle' = g[2]
        /\ FlashOldData' = g[3]
        /\ FlashNewData' = g[4]
  /\ UNCHANGED <<flash, heapCorrupt, PRIMASK, mainAddr, pc, req, fw, fe, rc, hwLog,
                 flashAtEntry, maskAtEntry, bc, ft, ea, ui, align>>

(* ------------------- one call of the rewrite engine ------------------- *)
\* content of the protected bytes: text, or text with blank and 'U' bytes
ProtContents ==
  { [i \in ProtIdx |-> 65 + i],
    [i \in ProtIdx |-> IF i = 0 THEN 255 ELSE IF i = 1 THEN 85 ELSE 65 + i] }

\* content of the rest of the device: blank, or in use
FillChoices == {"blank", "used"}

FlashImage(prot, fill) ==
  [a \in FlashIdx |->
     IF a \in ProtRange THEN prot[a - PROT_SECTOR_OFFSET]
     ELSE IF fill = "blank" THEN ERASED ELSE 16 + (a % 7)]

FlashInits == {FlashImage(p, f) : p \in ProtContents, f \in FillChoices}

\* addresses main() can be linked at: in flash, and in RAM
MainAddrs == {RAM_LOW - 1, RAM_LOW}

\* bytes of the caller's two-byte repeating data
DataBytes == {0, 90}

WriteRequests ==
  { [op |-> "write", off |-> o, size |-> n, d0 |-> a, d1 |-> b] :
      o \in (FlashIdx \cup {U32 - 1}), n \in ((0 .. (FLASH_SECTOR_SIZE + 1)) \cup {U16MAX}),
      a \in DataBytes, b \in DataBytes }

EraseRequests ==
  { [op |-> "erase", off |-> o, size |-> 0, d0 |-> 0, d1 |-> 0] :
      o \in ((0 .. FlashSize) \cup {U32 - 1}) }

\* reads past the end of the device are not modelled: a write request past the
\* device is kept only when the boundary test refuses it
Requests ==
  {r \in WriteRequests :
     r.off < FlashSize \/ (r.off % FLASH_SECTOR_SIZE) + r.size > FLASH_SECTOR_SIZE}
  \cup EraseRequests

IdleScan == [Loop1UInt32 |-> 0, TotalErrors |-> 0, FlagSkipLine |-> FLAG_OFF,
             FlagStarted |-> FLAG_OFF, lineFeeds |-> 0, reported |-> << >>]

\* normal: the count last announced as normal; passes: verifications done
IdleTest == [confirmed |-> FALSE, Loop2UInt8 |-> 0, SectorOffset |-> 0,
             TotalErrors |-> 0, Dum1Str |-> <<0, 0>>, hwOps |-> 0, passes |-> 0,
             normal |-> 0]

\* logStart: length of hwLog when the erase loop of the call started
IdleEraseAll == [FlagUnattended |-> FLAG_OFF, Loop1UInt32 |-> 0, ret |-> "none",
                 logStart |-> 0]

NoTimer == [MSecCounter |-> 0, CycleCount |-> 0, FlagCurrentBlink |-> FLAG_OFF,
            FlagLedStatus |-> FLAG_OFF]

IdleWrite == [FlashMemoryOffset |-> 0, SectorOffset |-> 0,
              Data |-> [kind |-> "pat", d0 |-> 0, d1 |-> 0], DataSize |-> 0,
              InterruptMask |-> 0, caller |-> "none"]

IdleErase == [FlashMemoryOffset |-> 0, InterruptMask |-> 0]

\* String: the answer to the last confirmation prompt; Text: the characters
\* typed at the offset prompt; SectorOffset: the offset parsed from them
IdleInput == [String |-> "", Text |-> << >>, SectorOffset |-> 0]

IdleAlign == [SectorOffset |-> 0, FlashMemoryOffset |-> 0]

Init ==
  /\ flash \in FlashInits
  /\ FlashOldData = [i \in SectorIdx |-> 0]
  /\ FlashNewData = [i \in SectorIdx |-> 0]
  /\ heapCorrupt = FALSE
  /\ PRIMASK \in {0, 1}
  /\ timerPending = FALSE
  /\ timerArmed = TRUE
  /\ tm = NoTimer
  /\ led = FALSE
  /\ SoftwareMode = MODE_ERASE_SECTOR
  /\ WriteCycle = 0
  /\ mainAddr \in MainAddrs
  /\ req \in Requests
  /\ pc = IF req.op = "write" THEN "fw_entry" ELSE "fe_entry"
  /\ fw = IF req.op = "write"
            THEN [IdleWrite EXCEPT !.FlashMemoryOffset = req.off,
                                   !.Data = [kind |-> "pat", d0 |-> req.d0, d1 |-> req.d1],
                                   !.DataSize = req.size, !.caller = "caller"]
            ELSE IdleWrite
  /\ fe = IF req.op = "erase" THEN [IdleErase EXCEPT !.FlashMemoryOffset = req.off]
          ELSE IdleErase
  /\ rc = -1
  /\ hwLog = << >>
  /\ flashAtEntry = flash
  /\ maskAtEntry = PRIMASK
  /\ bc = IdleScan
  /\ ft = IdleTest
  /\ ea = IdleEraseAll
  /\ ui = IdleInput
  /\ align = IdleAlign

Next ==
  \/ FlashWriteReject
  \/ FlashWriteStage
  \/ FlashWriteMask
  \/ FlashWriteHwErase
  \/ FlashWriteHwProgram
  \/ FlashWriteReturn
  \/ FlashEraseDelegate
  \/ FlashErasePlain
  \/ FlashEraseMask
  \/ FlashEraseHwErase
  \/ FlashEraseRestore
  \/ FlashEraseReturn
  \/ TimerAlarm
  \/ TimerDispatch

Spec == Init /\ [][Next]_vars


(* -------------------- the execution-location guard -------------------- *)
\* variant: only the lower limit of the RAM is tested
GuardTrips_LowOnly(a) == a < RAM_LOW

\* ((void *)main < 0x20000000) || ((void *)main > 0x20041FFF)
GuardTrips(a) == a < RAM_LOW \/ a > RAM_HIGH

(* ------------------------------ claims -------------------------------- *)
\* the sector the call was resolved to by the code
ResolvedSector == IF req.op = "write" THEN fw.SectorOffset ELSE fe.FlashMemoryOffset

\* the request's span leaves its sector, computed from the arguments
ReqCrosses == (req.off % FLASH_SECTOR_SIZE) + req.size > FLASH_SECTOR_SIZE

\* a hardware erase or program is under way: interrupts were masked for it and
\* have not been restored yet
InCritical == pc \in {"fw_erase", "fw_program", "fw_restore", "fe_erase", "fe_restore"}

\* C1: after a flash_erase or flash_write call resolved to the protected
\* sector has returned, the protected bytes equal their values before the call.
C1_ProtectedInvariance ==
  (pc = "done" /\ IsProtectedSector(ResolvedSector) /\ rc # 1)
    => \A a \in ProtRange : flash[a] = flashAtEntry[a]

\* C2: a flash_write whose in-sector offset plus length exceeds the sector
\* size returns 1, issues no hardware erase or program, never masks
\* interrupts and leaves the flash region unchanged.
C2_BoundaryRejection ==
  (req.op = "write" /\ ReqCrosses)
    => /\ pc \in {"fw_entry", "done"}
       /\ hwLog = << >>
       /\ flash = flashAtEntry
       /\ PRIMASK = maskAtEntry
       /\ (pc = "done" => rc = 1)

C2_Witness ==
  /\ req.op = "write" /\ ReqCrosses /\ pc = "done" /\ rc = 1
  /\ req.off % FLASH_SECTOR_SIZE # 0 /\ req.size <= FLASH_SECTOR_SIZE

\* C3: when main() is not in RAM, flash_erase and flash_write issue no
\* hardware erase or program and leave the flash region unchanged.
C3_SelfDestructionGuard ==
  GuardTrips(mainAddr) => (hwLog = << >> /\ flash = flashAtEntry)

\* C4: flash_erase of a misaligned offset erases the sector that contains
\* the offset, and no other sector.
C4_AlignmentCorrection ==
  (req.op = "erase" /\ req.off % FLASH_SECTOR_SIZE # 0 /\ req.off < FlashSize /\ pc = "done")
    => /\ hwLog # << >>
       /\ \A k \in 1 .. Len(hwLog) :
            hwLog[k].op = "erase" => hwLog[k].off = req.off - (req.off % FLASH_SECTOR_SIZE)

\* C5: after an accepted flash_write, every byte of [offset, offset+length)
\* outside the protected range reads back as the data written there.
C5_RoundTrip ==
  (req.op = "write" /\ pc = "done" /\ rc = 0)
    => \A i \in 0 .. (req.size - 1) :
         (req.off + i) \notin ProtRange
           => flash[req.off + i] = (IF i % 2 = 0 THEN req.d0 ELSE req.d1)

\* C9: while a hardware erase or program is under way interrupts are masked,
\* every hardware operation is issued with interrupts masked, and the timer
\* callback never runs inside the masked section.
C9_MaskedCriticalSection ==
  /\ [](/\ InCritical => PRIMASK = 1
        /\ \A k \in 1 .. Len(hwLog) : hwLog[k].masked = 1)
  /\ [][(timerPending /\ ~timerPending') => ~InCritical]_vars

C9_Witness ==
  /\ pc = "fw_program" /\ timerPending /\ maskAtEntry = 0 /\ PRIMASK = 1

\* C10: when flash_erase or flash_write has returned, on any path, the
\* interrupt mask equals the mask at entry.
C10_MaskRestored ==
  pc \in {"done", "fe_ret"} => PRIMASK = maskAtEntry

C10_Witness ==
  /\ pc = "done" /\ req.op = "erase" /\ fw.caller = "flash_erase"
  /\ maskAtEntry = 1 /\ Len(hwLog) = 2

\* flash_erase has resolved its offset to the protected sector
ErasesProtected ==
  req.op = "erase" /\ pc # "fe_entry" /\ IsProtectedSector(fe.FlashMemoryOffset)

\* offsets of the sector that starts at so
SectorRange(so) == {so + i : i \in SectorIdx}

\* C11: a flash_erase resolved to the protected sector issues a hardware erase
\* only as the first half of one masked erase-then-program of a full sector
\* image; when it has returned, the bytes of the sector outside the protected
\* range are 0xFF and the protected bytes have their values from before the call.
C11_ProtectedErase ==
  ErasesProtected
    => /\ Len(hwLog) <= 2
       /\ \A k \in 1 .. Len(hwLog) :
            /\ hwLog[k].off = PROT_SECTOR_OFFSET
            /\ hwLog[k].masked = 1
            /\ hwLog[k].op = (IF k = 1 THEN "erase" ELSE "program")
       /\ Len(hwLog) = 1 => (pc = "fw_program" /\ PRIMASK = 1)
       /\ Len(hwLog) = 2
            => \A i \in SectorIdx : flash[PROT_SECTOR_OFFSET + i] = FlashOldData[i]
       /\ pc = "done"
            => /\ Len(hwLog) = 2
               /\ \A a \in SectorRange(PROT_SECTOR_OFFSET) :
                    flash[a] = (IF a \in ProtRange THEN flashAtEntry[a] ELSE ERASED)

C11_Witness ==
  /\ ErasesProtected /\ pc = "done" /\ req.off # PROT_SECTOR_OFFSET
  /\ \E a \in SectorRange(PROT_SECTOR_OFFSET) \ ProtRange : flashAtEntry[a] # ERASED
  /\ \E a \in ProtRange : flashAtEntry[a] # ERASED

\* C20: flash_erase of an aligned offset S of the device, S not the protected
\* sector, leaves every byte of sector S at 0xFF and every other byte of the
\* device unchanged, with exactly one hardware erase and no hardware program.
C20_PlainErase ==
  (/\ req.op = "erase" /\ pc = "done"
   /\ req.off % FLASH_SECTOR_SIZE = 0 /\ req.off < FlashSize
   /\ req.off # PROT_SECTOR_OFFSET)
    => /\ \A a \in FlashIdx :
            flash[a] = (IF a \in SectorRange(req.off) THEN ERASED ELSE flashAtEntry[a])
       /\ Len(hwLog) = 1
       /\ hwLog[1].op = "erase" /\ hwLog[1].off = req.off

C20_Witness ==
  /\ req.op = "erase" /\ pc = "done" /\ req.off = 0 /\ 0 # PROT_SECTOR_OFFSET
  /\ \E a \in SectorRange(0) : flashAtEntry[a] # ERASED
  /\ \E a \in FlashIdx \ SectorRange(0) : flash[a] # ERASED
  /\ Len(hwLog) = 1

C21_OffsetSplit ==
  (req.op = "write" /\ pc # "fw_entry")
    => /\ fw.SectorOffset % FLASH_SECTOR_SIZE = 0
       /\ fw.FlashMemoryOffset \in SectorIdx
       /\ fw.SectorOffset + fw.FlashMemoryOffset = req.off
       /\ fw.SectorOffset <= req.off

C21_Witness ==
  /\ req.op = "write" /\ pc = "done" /\ rc = 0
  /\ req.off = FlashSize - 1 /\ fw.FlashMemoryOffset = FLASH_SECTOR_SIZE - 1
  /\ fw.SectorOffset = FlashSize - FLASH_SECTOR_SIZE

\* byte i of the data of the request
ReqData(i) == IF i % 2 = 0 THEN req.d0 ELSE req.d1

\* C22: after flash_write(PROT_SECTOR_OFFSET, data, length) with length not
\* above the sector size, the first TEST_RESULT_SIZE bytes of the sector have
\* their values from before the call, the bytes from TEST_RESULT_SIZE to
\* length - 1 are those of data, and the bytes from length on are unchanged.
C22_AlignedProtectedWrite ==
  (/\ req.op = "write" /\ pc = "done"
   /\ req.off = PROT_SECTOR_OFFSET /\ req.size <= FLASH_SECTOR_SIZE)
    => /\ rc = 0
       /\ \A i \in SectorIdx :
            flash[PROT_SECTOR_OFFSET + i]
              = (IF i < TEST_RESULT_SIZE THEN flashAtEntry[PROT_SECTOR_OFFSET + i]
                 ELSE IF i < req.size THEN ReqData(i)
                 ELSE flashAtEntry[PROT_SECTOR_OFFSET + i])

C22_Witness ==
  /\ req.op = "write" /\ pc = "done" /\ rc = 0
  /\ req.off = PROT_SECTOR_OFFSET /\ req.size = FLASH_SECTOR_SIZE
  /\ req.d0 # req.d1
  /\ \A a \in ProtRange : flash[a] \notin {req.d0, req.d1, ERASED}
  /\ flash[PROT_SECTOR_OFFSET + TEST_RESULT_SIZE] = ReqData(TEST_RESULT_SIZE)
  /\ flashAtEntry[PROT_SECTOR_OFFSET + TEST_RESULT_SIZE] # ReqData(TEST_RESULT_SIZE)

\* C23: in a flash_write call that passes the boundary test, whatever the
\* sector, the offset inside it and the length, no store into the staging
\* buffer FlashOldData lands outside indices 0 .. FLASH_SECTOR_SIZE - 1.
C23_StagingBounds ==
  (req.op = "write" /\ pc # "fw_entry" /\ rc # 1) => ~heapCorrupt

\* the operations and sector offsets of the hardware log
OpsIssued == [k \in 1 .. Len(hwLog) |-> <<hwLog[k].op, hwLog[k].off>>]

\* C28: a call never repeats a hardware operation.  An accepted flash_write
\* issues one hardware erase and then one hardware program of the same sector,
\* a refused flash_write issues none, a flash_erase of a sector other than
\* the protected one issues one hardware erase, and a flash_erase of the
\* protected sector issues what its single flash_write call issues.
C28_NoRetry ==
  /\ req.op = "write"
       => /\ OpsIssued \in {<< >>, <<<<"erase", fw.SectorOffset>>>>,
                            <<<<"erase", fw.SectorOffset>>, <<"program", fw.SectorOffset>>>>}
          /\ (pc = "done" /\ rc = 0) => Len(hwLog) = 2
          /\ rc = 1 => hwLog = << >>
  /\ (req.op = "erase" /\ pc # "fe_entry" /\ fe.FlashMemoryOffset # PROT_SECTOR_OFFSET)
       => /\ OpsIssued \in {<< >>, <<<<"erase", fe.FlashMemoryOffset>>>>}
          /\ pc = "done" => Len(hwLog) = 1
  /\ (req.op = "erase" /\ pc # "fe_entry" /\ fe.FlashMemoryOffset = PROT_SECTOR_OFFSET)
       => /\ OpsIssued \in {<< >>, <<<<"erase", PROT_SECTOR_OFFSET>>>>,
                            <<<<"erase", PROT_SECTOR_OFFSET>>, <<"program", PROT_SECTOR_OFFSET>>>>}
          /\ pc = "done" => Len(hwLog) = 2

C28_Witness ==
  /\ req.op = "write" /\ pc = "done" /\ rc = 0 /\ req.size > 0
  /\ req.off % FLASH_SECTOR_SIZE # 0 /\ fw.SectorOffset = 0
  /\ OpsIssued = <<<<"erase", 0>>, <<"program", 0>>>>

(* ------------------------- flash_blank_check -------------------------- *)
\* variant: the outer loop stops one line early
ScanContinues_StopsEarly(loop1) == loop1 + BLANK_CHUNK < EndOffset

\* the outer loop test: Loop1UInt32 < EndOffset
ScanContinues(loop1) == loop1 < EndOffset

\* the inner loop (lines 1103-1111): bytes of the line that are not 0xFF
RECURSIVE CountDirt(_, _, _)
CountDirt(fl, loop1, loop2) ==
  IF loop2 < BLANK_CHUNK
    THEN (IF fl[loop1 + loop2] # ERASED THEN 1 ELSE 0) + CountDirt(fl, loop1, loop2 + 1)
    ELSE 0

\* variant: every line is displayed
LineDisplayed_Always(dirt) == TRUE

\* the line is displayed (line 1130): if (FlagDirt)
LineDisplayed(dirt) == dirt > 0

\* the bytes displayed for a line
LineBytes(fl, loop1) == [k \in 0 .. (BLANK_CHUNK - 1) |-> fl[loop1 + k]]

\* lines 1061-1098: the initializations
BlankCheckEntry ==
  /\ pc = "bc_entry"
  /\ bc' = IdleScan
  /\ pc' = "bc_loop"
  /\ UNCHANGED <<flash, FlashOldData, FlashNewData, heapCorrupt, PRIMASK, timerVars,
                 modeVars, req, fw, fe, rc, hwLog, flashAtEntry, maskAtEntry, ft, ea, ui,
                 align>>

\* lines 1099-1162: one line of the scan
BlankCheckLine ==
  /\ pc = "bc_loop"
  /\ ScanContinues(bc.Loop1UInt32)
  /\ LET dirt == CountDirt(flash, bc.Loop1UInt32, 0)
         feed == dirt = 0 /\ bc.FlagSkipLine = FLAG_OFF /\ bc.FlagStarted = FLAG_ON
     IN bc' = [Loop1UInt32 |-> bc.Loop1UInt32 + BLANK_CHUNK,
               TotalErrors |-> bc.TotalErrors + dirt,
               FlagSkipLine |-> IF dirt = 0 THEN FLAG_ON ELSE FLAG_OFF,
               FlagStarted |-> FLAG_ON,
               lineFeeds |-> bc.lineFeeds + (IF feed THEN 1 ELSE 0),
               reported |-> IF LineDisplayed(dirt)
                              THEN Append(bc.reported,
                                          [addr |-> bc.Loop1UInt32,
                                           bytes |-> LineBytes(flash, bc.Loop1UInt32)])
                              ELSE bc.reported]
  /\ UNCHANGED <<flash, FlashOldData, FlashNewData, heapCorrupt, PRIMASK, timerVars,
                 modeVars, pc, req, fw, fe, rc, hwLog, flashAtEntry, maskAtEntry, ft, ea,
                 ui, align>>

\* lines 1164-1171: return TotalErrors
BlankCheckReturn ==
  /\ pc = "bc_loop"
  /\ ~ScanContinues(bc.Loop1UInt32)
  /\ rc' = bc.TotalErrors
  /\ pc' = "done"
  /\ UNCHANGED <<flash, FlashOldData, FlashNewData, heapCorrupt, PRIMASK, timerVars,
                 modeVars, req, fw, fe, hwLog, flashAtEntry, maskAtEntry, bc, ft, ea, ui,
                 align>>

\* the value flash_blank_check returns for a given content
RECURSIVE BlankCheckTotal(_, _)
BlankCheckTotal(fl, loop1) ==
  IF ScanContinues(loop1)
    THEN CountDirt(fl, loop1, 0) + BlankCheckTotal(fl, loop1 + BLANK_CHUNK)
    ELSE 0

(* --------------------- a scan of a drawn content ---------------------- *)
\* non-blank bytes placed in an otherwise blank device
MaxDirty == 2
DirtyBytes == {0, 254}

DirtyPlacements == [1 .. MaxDirty -> ((FlashIdx \cup {-1}) \X DirtyBytes)]

PlacedImage(pl) ==
  [a \in FlashIdx |->
     IF \E k \in 1 .. MaxDirty : pl[k][1] = a
       THEN pl[CHOOSE k \in 1 .. MaxDirty : pl[k][1] = a][2]
       ELSE ERASED]

ScanInits == {PlacedImage(pl) : pl \in DirtyPlacements} \cup FlashInits

InitScan ==
  /\ flash \in ScanInits
  /\ FlashOldData = [i \in SectorIdx |-> 0]
  /\ FlashNewData = [i \in SectorIdx |-> 0]
  /\ heapCorrupt = FALSE
  /\ PRIMASK = 0
  /\ timerPending = FALSE
  /\ timerArmed = TRUE
  /\ tm = NoTimer
  /\ led = FALSE
  /\ SoftwareMode \in {MODE_BLANK_CHECK, MODE_FLASH_TEST}
  /\ WriteCycle = 0
  /\ mainAddr \in MainAddrs
  /\ req = [op |-> "scan", off |-> 0, size |-> 0, d0 |-> 0, d1 |-> 0]
  /\ pc = "bc_entry"
  /\ fw = IdleWrite
  /\ fe = IdleErase
  /\ rc = -1
  /\ hwLog = << >>
  /\ flashAtEntry = flash
  /\ maskAtEntry = PRIMASK
  /\ bc = IdleScan
  /\ ft = IdleTest
  /\ ea = IdleEraseAll
  /\ ui = IdleInput
  /\ align = IdleAlign

NextScan ==
  \/ BlankCheckEntry
  \/ BlankCheckLine
  \/ BlankCheckReturn

SpecScan == InitScan /\ [][NextScan]_vars

\* offsets of the bytes that are not 0xFF
DirtySet == {a \in FlashIdx : flash[a] # ERASED}

\* start offsets of the aligned lines that hold a byte that is not 0xFF
DirtyLines == {a - (a % BLANK_CHUNK) : a \in DirtySet}

Addresses(rep) == {rep[k].addr : k \in 1 .. Len(rep)}

\* C7: on a device with exactly one byte that is not 0xFF, at offset A,
\* flash_blank_check returns 1 and displays exactly one line, the aligned line
\* whose range contains A.
C7_SingleDirtyByte ==
  (pc = "done" /\ Cardinality(DirtySet) = 1)
    => /\ rc = 1
       /\ Len(bc.reported) = 1
       /\ bc.reported[1].addr % BLANK_CHUNK = 0
       /\ \A a \in DirtySet :
            bc.reported[1].addr <= a /\ a < bc.reported[1].addr + BLANK_CHUNK

C7_Witness ==
  /\ pc = "done" /\ Cardinality(DirtySet) = 1 /\ rc = 1
  /\ EndOffset \in DirtySet

\* C8: for any content, flash_blank_check returns the number of bytes of the
\* region that are not 0xFF, and the lines it displays are exactly the aligned
\* lines holding such a byte, each once, in ascending address order.
C8_ScanCounts ==
  /\ pc = "bc_loop"
       => /\ bc.TotalErrors = Cardinality({a \in DirtySet : a < bc.Loop1UInt32})
          /\ Addresses(bc.reported) = {l \in DirtyLines : l < bc.Loop1UInt32}
  /\ pc = "done"
       => /\ rc = Cardinality(DirtySet)
          /\ Addresses(bc.reported) = DirtyLines
          /\ \A j, k \in 1 .. Len(bc.reported) :
               j < k => bc.reported[j].addr < bc.reported[k].addr
          /\ \A k \in 1 .. Len(bc.reported) :
               bc.reported[k].bytes = LineBytes(flash, bc.reported[k].addr)

C8_Witness ==
  /\ pc = "done" /\ rc = 2 /\ Len(bc.reported) = 2


(* ------------- whole calls of flash_write and flash_erase ------------- *)
\* a hardware operation as it is logged; the whole calls below issue theirs
\* between save_and_disable_interrupts and restore_interrupts
HwOp(op, off) == [op |-> op, off |-> off, masked |-> SaveAndDisable(0)]

\* flash_write run to its return, for a call whose restore loop stays inside
\* the staging buffer: the new flash, buffers, return value, hardware count
\* and hardware operations
FlashWriteCall(fl, old, new, off, d, size) ==
  LET al == WriteAlign(off, 0)
      so == al[1]
      fo == al[2]
      img == StagingImage(fl, so, fo, d, new, size)
  IN IF CrossesBoundary(fo, size)
       THEN [flash |-> fl, old |-> old, new |-> new, rc |-> 1, ops |-> 0, log |-> << >>]
       ELSE [flash |-> HwProgram(EraseSector(fl, so), so, img),
             old |-> img, new |-> new, rc |-> 0, ops |-> 2,
             log |-> <<HwOp("erase", so), HwOp("program", so)>>]

\* flash_erase run to its return, for a sector of the device
FlashEraseCall(fl, old, new, off) ==
  LET a == EraseAlign(off)
  IN IF IsProtectedSector(a)
       THEN FlashWriteCall(fl, old, AllErased, PROT_SECTOR_OFFSET,
                           [kind |-> "buf", d0 |-> 0, d1 |-> 0], FLASH_SECTOR_SIZE)
       ELSE [flash |-> EraseSector(fl, a), old |-> old, new |-> new, rc |-> 0, ops |-> 1,
             log |-> <<HwOp("erase", a)>>]

(* ------------------------ confirmation prompts ------------------------ *)
\* what the user may type at the confirmation prompt; "\r" is <Enter> alone
Answers == {"Y", "y", "N", "n", "YES", "\r"}

\* variant: only "N" and "n" decline
Declined_OnlyNo(answer) == answer = "N" \/ answer = "n"

\* lines 1319: (strcmp(String, "Y") != 0) && (strcmp(String, "y") != 0)
Declined(answer) == answer # "Y" /\ answer # "y"

(* -------------------------- erase_all_flash --------------------------- *)
\* lines 920-927, attended call: the answer is not "Y" or "y"
EraseAllDecline ==
  /\ pc = "ea_entry"
  /\ ea.FlagUnattended = FLAG_OFF
  /\ \E answer \in Answers :
       Declined(answer) /\ ui' = [ui EXCEPT !.String = answer]
  /\ pc' = ea.ret
  /\ UNCHANGED <<flash, FlashOldData, FlashNewData, heapCorrupt, PRIMASK, timerVars,
                 modeVars, req, fw, fe, rc, hwLog, flashAtEntry, maskAtEntry, bc, ft, ea,
                 align>>

\* lines 920-927, attended call: the answer is "Y" or "y"
EraseAllConfirm ==
  /\ pc = "ea_entry"
  /\ ea.FlagUnattended = FLAG_OFF
  /\ \E answer \in Answers :
       ~Declined(answer) /\ ui' = [ui EXCEPT !.String = answer]
  /\ pc' = "ea_guard"
  /\ UNCHANGED <<flash, FlashOldData, FlashNewData, heapCorrupt, PRIMASK, timerVars,
                 modeVars, req, fw, fe, rc, hwLog, flashAtEntry, maskAtEntry, bc, ft, ea,
                 align>>

\* line 930 is reached: the call is unattended, or the prompt was confirmed
EraseAllAtGuard == (pc = "ea_entry" /\ ea.FlagUnattended = FLAG_ON) \/ pc = "ea_guard"

\* lines 930-939: the guard trips and nothing is erased
EraseAllGuarded ==
  /\ EraseAllAtGuard
  /\ GuardTrips(mainAddr)
  /\ pc' = ea.ret
  /\ UNCHANGED <<flash, FlashOldData, FlashNewData, heapCorrupt, PRIMASK, timerVars,
                 modeVars, req, fw, fe, rc, hwLog, flashAtEntry, maskAtEntry, bc, ft, ea,
                 ui, align>>

\* lines 930-950: the guard passes and the loop starts
EraseAllBegin ==
  /\ EraseAllAtGuard
  /\ ~GuardTrips(mainAddr)
  /\ ea' = [ea EXCEPT !.Loop1UInt32 = 0, !.logStart = Len(hwLog)]
  /\ pc' = "ea_loop"
  /\ UNCHANGED <<flash, FlashOldData, FlashNewData, heapCorrupt, PRIMASK, timerVars,
                 modeVars, req, fw, fe, rc, hwLog, flashAtEntry, maskAtEntry, bc, ft, ui,
                 align>>

\* lines 950-955: flash_erase(Loop1UInt32), Loop1UInt32 += 0x1000
EraseAllSector ==
  /\ pc = "ea_loop"
  /\ ea.Loop1UInt32 < EndOffset
  /\ LET r == FlashEraseCall(flash, FlashOldData, FlashNewData, ea.Loop1UInt32)
     IN /\ flash' = r.flash
        /\ FlashOldData' = r.old
        /\ FlashNewData' = r.new
        /\ ft' = [ft EXCEPT !.hwOps = ft.hwOps + r.ops]
        /\ hwLog' = hwLog \o r.log
  /\ ea' = [ea EXCEPT !.Loop1UInt32 = ea.Loop1UInt32 + FLASH_SECTOR_SIZE]
  /\ UNCHANGED <<heapCorrupt, PRIMASK, timerVars, modeVars, pc, req, fw, fe, rc,
                 flashAtEntry, maskAtEntry, bc, ui, align>>

\* lines 958-964: the loop is over
EraseAllReturn ==
  /\ pc = "ea_loop"
  /\ ~(ea.Loop1UInt32 < EndOffset)
  /\ pc' = ea.ret
  /\ UNCHANGED <<flash, FlashOldData, FlashNewData, heapCorrupt, PRIMASK, timerVars,
                 modeVars, req, fw, fe, rc, hwLog, flashAtEntry, maskAtEntry, bc, ft, ea,
                 ui, align>>

(* ----------------------------- flash_test ----------------------------- *)
\* variant: the two mixed patterns come in the other order
Pattern_MixedSwapped(loop2) ==
  CASE loop2 = 0 -> <<0, 0>>
    [] loop2 = 1 -> <<85, 85>>
    [] loop2 = 2 -> <<170, 170>>
    [] loop2 = 3 -> <<170, 85>>
    [] loop2 = 4 -> <<85, 170>>

\* lines 1366-1397: the two bytes of pattern Loop2UInt8
Pattern(loop2) ==
  CASE loop2 = 0 -> <<0, 0>>
    [] loop2 = 1 -> <<85, 85>>
    [] loop2 = 2 -> <<170, 170>>
    [] loop2 = 3 -> <<85, 170>>
    [] loop2 = 4 -> <<170, 85>>

\* lines 1402-1406: the sector buffer filled with the two bytes
PatternBuffer(d) == [i \in SectorIdx |-> IF i % 2 = 0 THEN d[1] ELSE d[2]]

\* lines 1423-1427: the first bytes of the buffer filled again, two at a time
Refill(new, d) ==
  [i \in SectorIdx |->
     IF i < TEST_RESULT_SIZE + (TEST_RESULT_SIZE % 2)
       THEN (IF i % 2 = 0 THEN d[1] ELSE d[2])
       ELSE new[i]]

\* variant: only the first byte of each pair is compared
RECURSIVE VerifyErrors_FirstByteOnly(_, _, _)
VerifyErrors_FirstByteOnly(fl, loop1, d) ==
  IF loop1 < EndOffset
    THEN (IF fl[loop1] # d[1] THEN 1 ELSE 0) + VerifyErrors_FirstByteOnly(fl, loop1 + 2, d)
    ELSE 0

\* lines 1450-1466: mismatches of the read-back, two bytes per iteration
RECURSIVE VerifyErrors(_, _, _)
VerifyErrors(fl, loop1, d) ==
  IF loop1 < EndOffset
    THEN (IF fl[loop1] # d[1] THEN 1 ELSE 0) + (IF fl[loop1 + 1] # d[2] THEN 1 ELSE 0)
         + VerifyErrors(fl, loop1 + 2, d)
    ELSE 0

\* the literal 1070 of line 1472: 107 * 2 * 5, the count normal for one cycle
NORMAL_PER_CYCLE == TEST_RESULT_SIZE * 2 * 5

\* variant: one count per pattern instead of two
NormalSoFar_OnePerPattern(wc, loop2) ==
  (wc * NORMAL_PER_CYCLE) + (TEST_RESULT_SIZE * (loop2 + 1))

\* line 1472: the count announced as normal after a verification
NormalSoFar(wc, loop2) ==
  (wc * NORMAL_PER_CYCLE) + (TEST_RESULT_SIZE * ((loop2 + 1) * 2))

\* lines 1317-1320: the answer is not "Y" or "y", flash_test returns
FlashTestDecline ==
  /\ pc = "ft_start"
  /\ \E answer \in Answers :
       Declined(answer) /\ ui' = [ui EXCEPT !.String = answer]
  /\ pc' = "done"
  /\ UNCHANGED <<flash, FlashOldData, FlashNewData, heapCorrupt, PRIMASK, timerVars,
                 modeVars, req, fw, fe, rc, hwLog, flashAtEntry, maskAtEntry, bc, ft, ea,
                 align>>

\* lines 1317-1355: confirmed; initializations, first cycle, first pattern
FlashTestConfirm ==
  /\ pc = "ft_start"
  /\ \E answer \in Answers :
       ~Declined(answer) /\ ui' = [ui EXCEPT !.String = answer]
  /\ ft' = [IdleTest EXCEPT !.confirmed = TRUE]
  /\ WriteCycle' = 0
  /\ ea' = [IdleEraseAll EXCEPT !.FlagUnattended = FLAG_ON, !.ret = "ft_blank"]
  /\ pc' = "ea_entry"
  /\ UNCHANGED <<flash, FlashOldData, FlashNewData, heapCorrupt, PRIMASK, timerVars,
                 SoftwareMode, mainAddr, req, fw, fe, rc, hwLog, flashAtEntry,
                 maskAtEntry, bc, align>>

\* lines 1358-1406: blank check added to the total, pattern chosen, buffer filled
FlashTestBlankCheck ==
  /\ pc = "ft_blank"
  /\ ft' = [ft EXCEPT !.TotalErrors = ft.TotalErrors + BlankCheckTotal(flash, 0),
                      !.Dum1Str = Pattern(ft.Loop2UInt8),
                      !.SectorOffset = 0]
  /\ FlashNewData' = PatternBuffer(Pattern(ft.Loop2UInt8))
  /\ pc' = "ft_write"
  /\ UNCHANGED <<flash, FlashOldData, heapCorrupt, PRIMASK, timerVars, modeVars, req,
                 fw, fe, rc, hwLog, flashAtEntry, maskAtEntry, bc, ea, ui, align>>

\* lines 1416-1429: one sector written with the buffer
FlashTestWriteSector ==
  /\ pc = "ft_write"
  /\ ft.SectorOffset < EndOffset
  /\ LET r == FlashWriteCall(flash, FlashOldData, FlashNewData, ft.SectorOffset,
                             [kind |-> "buf", d0 |-> 0, d1 |-> 0], FLASH_SECTOR_SIZE)
     IN /\ flash' = r.flash
        /\ FlashOldData' = r.old
        /\ FlashNewData' = IF ft.SectorOffset = PROT_SECTOR_OFFSET
                             THEN Refill(r.new, ft.Dum1Str) ELSE r.new
        /\ ft' = [ft EXCEPT !.SectorOffset = ft.SectorOffset + FLASH_SECTOR_SIZE,
                            !.hwOps = ft.hwOps + r.ops]
        /\ hwLog' = hwLog \o r.log
  /\ UNCHANGED <<heapCorrupt, PRIMASK, timerVars, modeVars, pc, req, fw, fe, rc,
                 flashAtEntry, maskAtEntry, bc, ea, ui, align>>

\* lines 1431-1479, 1345-1355, 1487: read-back compared, then the next pattern,
\* the next cycle, or the final erase
FlashTestVerify ==
  /\ pc = "ft_write"
  /\ ~(ft.SectorOffset < EndOffset)
  /\ LET total == ft.TotalErrors + VerifyErrors(flash, 0, ft.Dum1Str)
         lastPattern == ~(ft.Loop2UInt8 + 1 < 5)
         cycle == IF lastPattern THEN WriteCycle + 1 ELSE WriteCycle
     IN /\ ft' = [ft EXCEPT !.TotalErrors = total,
                            !.Loop2UInt8 = IF lastPattern THEN 0 ELSE ft.Loop2UInt8 + 1,
                            !.passes = ft.passes + 1,
                            !.normal = NormalSoFar(WriteCycle, ft.Loop2UInt8)]
        /\ WriteCycle' = cycle
        /\ ea' = [IdleEraseAll EXCEPT
                    !.FlagUnattended = FLAG_ON,
                    !.ret = IF cycle < TOTAL_CYCLES THEN "ft_blank" ELSE "ft_report"]
  /\ pc' = "ea_entry"
  /\ UNCHANGED <<flash, FlashOldData, FlashNewData, heapCorrupt, PRIMASK, timerVars,
                 SoftwareMode, mainAddr, req, fw, fe, rc, hwLog, flashAtEntry,
                 maskAtEntry, bc, ui, align>>

\* lines 1494-1517: the final report, and return
FlashTestReport ==
  /\ pc = "ft_report"
  /\ pc' = "done"
  /\ UNCHANGED <<flash, FlashOldData, FlashNewData, heapCorrupt, PRIMASK, timerVars,
                 modeVars, req, fw, fe, rc, hwLog, flashAtEntry, maskAtEntry, bc, ft, ea,
                 ui, align>>

(* ------------------------ a run of flash_test ------------------------- *)
TestMainAddrs == {RAM_LOW - 1, RAM_LOW, RAM_HIGH, RAM_HIGH + 1}

InitTest ==
  /\ flash \in FlashInits
  /\ FlashOldData = [i \in SectorIdx |-> 0]
  /\ FlashNewData = [i \in SectorIdx |-> 0]
  /\ heapCorrupt = FALSE
  /\ PRIMASK = 0
  /\ timerPending = FALSE
  /\ timerArmed = TRUE
  /\ tm = NoTimer
  /\ led = FALSE
  /\ SoftwareMode = MODE_FLASH_TEST
  /\ WriteCycle \in {0, TOTAL_CYCLES}
  /\ mainAddr \in TestMainAddrs
  /\ req = [op |-> "test", off |-> 0, size |-> 0, d0 |-> 0, d1 |-> 0]
  /\ pc = "ft_start"
  /\ fw = IdleWrite
  /\ fe = IdleErase
  /\ rc = -1
  /\ hwLog = << >>
  /\ flashAtEntry = flash
  /\ maskAtEntry = PRIMASK
  /\ bc = IdleScan
  /\ ft = IdleTest
  /\ ea = IdleEraseAll
  /\ ui = IdleInput
  /\ align = IdleAlign

NextTest ==
  \/ FlashTestDecline
  \/ FlashTestConfirm
  \/ EraseAllGuarded
  \/ EraseAllBegin
  \/ EraseAllSector
  \/ EraseAllReturn
  \/ FlashTestBlankCheck
  \/ FlashTestWriteSector
  \/ FlashTestVerify
  \/ FlashTestReport

SpecTest == InitTest /\ [][NextTest]_vars

\* the count flash_test announces as normal
ExpectedErrors == TEST_RESULT_SIZE * 2 * 5 * TOTAL_CYCLES

\* no protected byte is blank or equal to a byte of the patterns
ProtectedBytesDistinct ==
  \A a \in ProtRange : flashAtEntry[a] \notin {ERASED, 0, 85, 170}

DisplayLogDecline ==
  /\ pc = "dl_start"
  /\ \E answer \in Answers :
       Declined(answer) /\ ui' = [ui EXCEPT !.String = answer]
  /\ pc' = "done"
  /\ UNCHANGED <<flash, FlashOldData, FlashNewData, heapCorrupt, PRIMASK, timerVars,
                 modeVars, req, fw, fe, rc, hwLog, flashAtEntry, maskAtEntry, bc, ft, ea,
                 align>>

\* lines 534-548: confirmed; erase_all_flash(FLAG_ON), then flash_blank_check,
\* whose return is followed by displays only
DisplayLogConfirm ==
  /\ pc = "dl_start"
  /\ \E answer \in Answers :
       ~Declined(answer) /\ ui' = [ui EXCEPT !.String = answer]
  /\ ea' = [IdleEraseAll EXCEPT !.FlagUnattended = FLAG_ON, !.ret = "bc_entry"]
  /\ pc' = "ea_entry"
  /\ UNCHANGED <<flash, FlashOldData, FlashNewData, heapCorrupt, PRIMASK, timerVars,
                 modeVars, req, fw, fe, rc, hwLog, flashAtEntry, maskAtEntry, bc, ft,
                 align>>

(* ----------------------- erase_specific_sector ------------------------ *)
\* the characters strtol takes as hexadecimal digits, by value
HexDigits == <<"0", "1", "2", "3", "4", "5", "6", "7", "8", "9",
               "a", "b", "c", "d", "e", "f">>
HexUpper == <<"0", "1", "2", "3", "4", "5", "6", "7", "8", "9",
              "A", "B", "C", "D", "E", "F">>

\* value of a hexadecimal digit, -1 for any other character
HexValue(c) ==
  IF \E k \in 1 .. 16 : HexDigits[k] = c \/ HexUpper[k] = c
    THEN (CHOOSE k \in 1 .. 16 : HexDigits[k] = c \/ HexUpper[k] = c) - 1
    ELSE -1

\* strtol skips leading white space
RECURSIVE SkipSpace(_, _)
SkipSpace(s, k) ==
  IF k <= Len(s) /\ s[k] \in {" ", "\r", "\t", "\n"} THEN SkipSpace(s, k + 1) ELSE k

\* strtol accumulates the digits up to the first character that is none
RECURSIVE HexPrefix(_, _, _)
HexPrefix(s, k, acc) ==
  IF k > Len(s) \/ HexValue(s[k]) < 0
    THEN acc
    ELSE HexPrefix(s, k + 1, acc * 16 + HexValue(s[k]))

\* strtol(String, NULL, 16) for texts whose value fits a long: white space,
\* an optional sign, an optional "0x" before a digit, then the digits
Strtol16(s) ==
  LET k0 == SkipSpace(s, 1)
      signed == k0 <= Len(s) /\ s[k0] \in {"-", "+"}
      k1 == IF signed THEN k0 + 1 ELSE k0
      prefixed == /\ k1 + 2 <= Len(s)
                  /\ s[k1] = "0" /\ s[k1 + 1] \in {"x", "X"}
                  /\ HexValue(s[k1 + 2]) >= 0
      k2 == IF prefixed THEN k1 + 2 ELSE k1
      v == HexPrefix(s, k2, 0)
  IN IF signed /\ s[k0] = "-" THEN 0 - v ELSE v

\* the long stored into the UINT32 SectorOffset
ToUInt32(v) == v % U32

\* a number as the user types it in hexadecimal
RECURSIVE HexText(_)
HexText(n) ==
  IF n < 16 THEN <<HexDigits[n + 1]>> ELSE Append(HexText(n \div 16), HexDigits[(n % 16) + 1])

\* <Enter> alone, as input_string returns it
EnterOnly == <<"\r">>

\* what the user may type at the offset prompt: offsets of the device and
\* just past it, a negative sector size, a prefixed zero, text that is no
\* number, and <Enter> alone
OffsetTexts ==
  {HexText(n) : n \in 0 .. (FlashSize + 1)}
    \cup {<<"-">> \o HexText(FLASH_SECTOR_SIZE), <<"0", "x", "0">>, <<"z">>, EnterOnly}

\* variant: every offset is taken as aligned
Misaligned_Never(off) == FALSE

\* line 988: while (SectorOffset % 4096)
Misaligned(off) == off % FLASH_SECTOR_SIZE # 0

\* lines 983-986: the first offset is read
EraseSectorInput ==
  /\ pc = "es_start"
  /\ \E t \in OffsetTexts :
       ui' = [ui EXCEPT !.Text = t, !.SectorOffset = ToUInt32(Strtol16(t))]
  /\ pc' = "es_loop"
  /\ UNCHANGED <<flash, FlashOldData, FlashNewData, heapCorrupt, PRIMASK, timerVars,
                 modeVars, req, fw, fe, rc, hwLog, flashAtEntry, maskAtEntry, bc, ft, ea,
                 align>>

\* lines 988-996: the offset is misaligned and another is read; <Enter> alone
\* leaves the loop with the offset as it was
EraseSectorRetry ==
  /\ pc = "es_loop"
  /\ Misaligned(ui.SectorOffset)
  /\ ui.Text # EnterOnly
  /\ \E t \in OffsetTexts :
       ui' = [ui EXCEPT !.Text = t,
                        !.SectorOffset = IF t = EnterOnly THEN ui.SectorOffset
                                         ELSE ToUInt32(Strtol16(t))]
  /\ UNCHANGED <<flash, FlashOldData, FlashNewData, heapCorrupt, PRIMASK, timerVars,
                 modeVars, pc, req, fw, fe, rc, hwLog, flashAtEntry, maskAtEntry, bc, ft,
                 ea, align>>

\* line 997: the last text was <Enter> alone, erase_specific_sector returns
EraseSectorEnter ==
  /\ pc = "es_loop"
  /\ ui.Text = EnterOnly
  /\ pc' = "done"
  /\ UNCHANGED <<flash, FlashOldData, FlashNewData, heapCorrupt, PRIMASK, timerVars,
                 modeVars, req, fw, fe, rc, hwLog, flashAtEntry, maskAtEntry, bc, ft, ea,
                 ui, align>>

\* lines 1000-1016: the sector is displayed; the answer is not "Y" or "y"
EraseSectorDecline ==
  /\ pc = "es_loop"
  /\ ~Misaligned(ui.SectorOffset)
  /\ ui.Text # EnterOnly
  /\ \E answer \in Answers :
       Declined(answer) /\ ui' = [ui EXCEPT !.String = answer]
  /\ pc' = "done"
  /\ UNCHANGED <<flash, FlashOldData, FlashNewData, heapCorrupt, PRIMASK, timerVars,
                 modeVars, req, fw, fe, rc, hwLog, flashAtEntry, maskAtEntry, bc, ft, ea,
                 align>>

\* lines 1000-1026: confirmed; flash_erase(SectorOffset), whose return is
\* followed by displays only
EraseSectorConfirm ==
  /\ pc = "es_loop"
  /\ ~Misaligned(ui.SectorOffset)
  /\ ui.Text # EnterOnly
  /\ \E answer \in Answers :
       ~Declined(answer) /\ ui' = [ui EXCEPT !.String = answer]
  /\ fe' = [IdleErase EXCEPT !.FlashMemoryOffset = ui.SectorOffset]
  /\ pc' = "fe_entry"
  /\ UNCHANGED <<flash, FlashOldData, FlashNewData, heapCorrupt, PRIMASK, timerVars,
                 modeVars, req, fw, rc, hwLog, flashAtEntry, maskAtEntry, bc, ft, ea,
                 align>>

(* ------------------------------ main menu ----------------------------- *)
\* the options of the menu that reach the flash
MenuChoices == {6, 7, 8, 9, 10}

\* lines 313-393: the mode an option sets and the function it calls
MenuEntry(Menu) ==
  CASE Menu = 6 -> [mode |-> MODE_COMPLETE_LOG, op |-> "log", pc |-> "dl_start"]
    [] Menu = 7 -> [mode |-> MODE_ERASE_SECTOR, op |-> "erase_sector", pc |-> "es_start"]
    [] Menu = 8 -> [mode |-> MODE_ERASE_WHOLE_FLASH, op |-> "erase_all", pc |-> "ea_entry"]
    [] Menu = 9 -> [mode |-> MODE_BLANK_CHECK, op |-> "scan", pc |-> "bc_entry"]
    [] Menu = 10 -> [mode |-> MODE_FLASH_TEST, op |-> "test", pc |-> "ft_start"]

\* lines 307-391: an option is entered, the mode is set, the function is called;
\* option 8 calls erase_all_flash(FLAG_OFF)
MainMenu ==
  /\ pc = "menu"
  /\ \E Menu \in MenuChoices :
       /\ SoftwareMode' = MenuEntry(Menu).mode
       /\ req' = [req EXCEPT !.op = MenuEntry(Menu).op]
       /\ pc' = MenuEntry(Menu).pc
  /\ ea' = [IdleEraseAll EXCEPT !.FlagUnattended = FLAG_OFF, !.ret = "done"]
  /\ UNCHANGED <<flash, FlashOldData, FlashNewData, heapCorrupt, PRIMASK, timerVars,
                 WriteCycle, mainAddr, fw, fe, rc, hwLog, flashAtEntry, maskAtEntry, bc,
                 ft, ui, align>>

\* line 408: the function has returned, SoftwareMode = MODE_UNDEFINED, and the
\* while (true) of line 270 goes round
MainLoopEnd ==
  /\ pc = "done"
  /\ SoftwareMode' = MODE_UNDEFINED
  /\ pc' = "loop_top"
  /\ UNCHANGED <<flash, FlashOldData, FlashNewData, heapCorrupt, PRIMASK, timerVars,
                 WriteCycle, mainAddr, req, fw, fe, rc, hwLog, flashAtEntry,
                 maskAtEntry, bc, ft, ea, ui, align>>

\* display_microcontroller_id, called at the top of the loop (line 272): the
\* LED is driven high for the first reading of the supply voltage (line 777)
DisplayIdLedOn ==
  /\ pc = "loop_top"
  /\ led' = TRUE
  /\ pc' = "id_adc"
  /\ UNCHANGED <<flash, FlashOldData, FlashNewData, heapCorrupt, PRIMASK, timerPending,
                 timerArmed, tm, modeVars, req, fw, fe, rc, hwLog, flashAtEntry,
                 maskAtEntry, bc, ft, ea, ui, align>>

\* and low for the second one (line 788), before the menu is displayed
DisplayIdLedOff ==
  /\ pc = "id_adc"
  /\ led' = FALSE
  /\ pc' = "menu"
  /\ UNCHANGED <<flash, FlashOldData, FlashNewData, heapCorrupt, PRIMASK, timerPending,
                 timerArmed, tm, modeVars, req, fw, fe, rc, hwLog, flashAtEntry,
                 maskAtEntry, bc, ft, ea, ui, align>>

(* ------------------------ one option of the menu ---------------------- *)
InitMenu ==
  /\ flash \in FlashInits
  /\ FlashOldData = [i \in SectorIdx |-> 0]
  /\ FlashNewData = [i \in SectorIdx |-> 0]
  /\ heapCorrupt = FALSE
  /\ PRIMASK = 0
  /\ timerPending = FALSE
  /\ timerArmed = TRUE
  /\ tm = NoTimer
  /\ led = FALSE
  /\ SoftwareMode = MODE_UNDEFINED
  /\ WriteCycle = 0
  /\ mainAddr \in TestMainAddrs
  /\ req = [op |-> "menu", off |-> 0, size |-> 0, d0 |-> 0, d1 |-> 0]
  /\ pc = "menu"
  /\ fw = IdleWrite
  /\ fe = IdleErase
  /\ rc = -1
  /\ hwLog = << >>
  /\ flashAtEntry = flash
  /\ maskAtEntry = PRIMASK
  /\ bc = IdleScan
  /\ ft = IdleTest
  /\ ea = IdleEraseAll
  /\ ui = IdleInput
  /\ align = IdleAlign

NextMenu ==
  \/ MainMenu
  \/ MainLoopEnd
  \/ DisplayLogDecline
  \/ DisplayLogConfirm
  \/ EraseSectorInput
  \/ EraseSectorRetry
  \/ EraseSectorEnter
  \/ EraseSectorDecline
  \/ EraseSectorConfirm
  \/ EraseAllDecline
  \/ EraseAllConfirm
  \/ EraseAllGuarded
  \/ EraseAllBegin
  \/ EraseAllSector
  \/ EraseAllReturn
  \/ BlankCheckEntry
  \/ BlankCheckLine
  \/ BlankCheckReturn
  \/ FlashTestDecline
  \/ FlashTestConfirm
  \/ FlashTestBlankCheck
  \/ FlashTestWriteSector
  \/ FlashTestVerify
  \/ FlashTestReport
  \/ FlashEraseDelegate
  \/ FlashErasePlain
  \/ FlashEraseMask
  \/ FlashEraseHwErase
  \/ FlashEraseRestore
  \/ FlashEraseReturn
  \/ FlashWriteStage
  \/ FlashWriteMask
  \/ FlashWriteHwErase
  \/ FlashWriteHwProgram
  \/ FlashWriteReturn

SpecMenu == InitMenu /\ [][NextMenu]_vars

(* --------------------------- claims, menu ----------------------------- *)
\* the hardware operations issued since the erase loop of erase_all_flash began
SinceLoopBegan == SubSeq(hwLog, ea.logStart + 1, Len(hwLog))

IsErase(e) == e.op = "erase"

\* the flash region is blank outside the protected range, which is as it was
BlankButProtected ==
  \A a \in FlashIdx : flash[a] = (IF a \in ProtRange THEN flashAtEntry[a] ELSE ERASED)

\* C12: when the loop of erase_all_flash is over, which needs the guard
\* satisfied and the call confirmed or unattended, every sector of the device
\* has been erased exactly once, in ascending order, every byte outside the
\* protected range is 0xFF and the protected bytes are unchanged.
C12_WholeFlashErase ==
  /\ pc = "ea_loop"
       => LET er == SelectSeq(SinceLoopBegan, IsErase)
          IN /\ ~GuardTrips(mainAddr)
             /\ ea.Loop1UInt32 = Len(er) * FLASH_SECTOR_SIZE
             /\ \A k \in 1 .. Len(er) : er[k].off = (k - 1) * FLASH_SECTOR_SIZE
             /\ \A k \in 1 .. Len(SinceLoopBegan) :
                  SinceLoopBegan[k].op = "program"
                    => SinceLoopBegan[k].off = PROT_SECTOR_OFFSET
             /\ \A a \in ProtRange : flash[a] = flashAtEntry[a]
             /\ \A a \in FlashIdx \ ProtRange : a < ea.Loop1UInt32 => flash[a] = ERASED
             /\ ~(ea.Loop1UInt32 < EndOffset)
                  => (Len(er) = NumSectors /\ BlankButProtected)
  /\ (/\ req.op = "erase_all" /\ pc = "done"
      /\ ui.String \in {"Y", "y"} /\ ~GuardTrips(mainAddr))
       => /\ BlankButProtected
          /\ Len(SelectSeq(hwLog, IsErase)) = NumSectors

C12_Witness ==
  /\ req.op = "erase_all" /\ pc = "done" /\ ui.String = "y" /\ ~GuardTrips(mainAddr)
  /\ Len(hwLog) = NumSectors + 1
  /\ \E a \in FlashIdx \ ProtRange : flashAtEntry[a] # ERASED
  /\ \E a \in ProtRange : flash[a] # ERASED

\* the function called from the menu has returned to main's loop
Returned == pc \in {"done", "loop_top"}

\* the entry points that ask for confirmation
Prompted == {"log", "erase_sector", "erase_all", "test"}

\* C13: in flash_test, erase_all_flash(FLAG_OFF), erase_specific_sector and
\* display_complete_log, as long as the answer to the confirmation prompt is
\* not exactly "Y" or "y" no hardware erase or program is issued and the flash
\* region is unchanged, and once such an answer is given the function returns.
C13_ConfirmationGate ==
  (req.op \in Prompted /\ ui.String \notin {"Y", "y"})
    => /\ hwLog = << >>
       /\ flash = flashAtEntry
       /\ pc \in {"dl_start", "es_start", "es_loop", "ea_entry", "ft_start", "done",
                  "loop_top"}
       /\ ui.String # "" => Returned

C13_Witness ==
  /\ req.op = "erase_sector" /\ pc = "done" /\ ui.String = "YES"
  /\ ui.SectorOffset = 0 /\ ui.Text = <<"0">>
  /\ \E a \in FlashIdx \ ProtRange : flash[a] # ERASED

\* main() is outside the RAM address space
MainOutsideRam == mainAddr < RAM_LOW \/ mainAddr > RAM_HIGH

\* C24: with main() outside 0x20000000 .. 0x20041FFF, every call of
\* erase_all_flash that reaches the guard, unattended or confirmed, returns
\* from it with the flash region and the hardware log as they were, and the
\* loop that calls flash_erase is never entered; this holds for each call anew.
C24_EraseAllGuard ==
  /\ [](MainOutsideRam => pc # "ea_loop")
  /\ [][(MainOutsideRam /\ EraseAllAtGuard)
          => /\ pc' = ea.ret
             /\ flash' = flash
             /\ hwLog' = hwLog
             /\ UNCHANGED <<FlashOldData, FlashNewData, ea>>]_vars
  /\ []((req.op \in {"erase_all", "log"} /\ MainOutsideRam)
          => (hwLog = << >> /\ flash = flashAtEntry))

C24_Witness ==
  /\ req.op = "erase_all" /\ pc = "done" /\ ui.String = "Y"
  /\ mainAddr > RAM_HIGH /\ hwLog = << >>
  /\ \E a \in FlashIdx \ ProtRange : flash[a] # ERASED

\* offsets of the sectors of the device (0x000000 .. 0x1FF000 in the source)
SectorOffsets == {k * FLASH_SECTOR_SIZE : k \in 0 .. (NumSectors - 1)}

\* C29: whatever the menu option and whatever the user types, every hardware
\* erase or program is issued for the offset of a sector of the device.
C29_TargetsInDevice ==
  \A k \in 1 .. Len(hwLog) : hwLog[k].off \in SectorOffsets

\* erase_specific_sector is at one of its offset prompts
AtOffsetPrompt == req.op = "erase_sector" /\ pc = "es_loop"

\* C30: erase_specific_sector calls flash_erase only with an offset that is a
\* multiple of the sector size and only on the answer "Y" or "y"; with a
\* misaligned offset it stays at the offset prompt until <Enter> alone is
\* typed; <Enter> alone at an offset prompt or at the confirmation prompt makes
\* it return with no hardware operation and the flash region unchanged.
C30_AlignedSectorErase ==
  /\ [][(AtOffsetPrompt /\ pc' = "fe_entry")
          => /\ ui.SectorOffset % FLASH_SECTOR_SIZE = 0
             /\ ui.Text # EnterOnly
             /\ ui'.String \in {"Y", "y"}
             /\ fe'.FlashMemoryOffset = ui.SectorOffset]_vars
  /\ [][(AtOffsetPrompt /\ ui.SectorOffset % FLASH_SECTOR_SIZE # 0 /\ pc' # "es_loop")
          => (ui.Text = EnterOnly /\ pc' = "done")]_vars
  /\ [][(AtOffsetPrompt /\ ui.Text = EnterOnly) => pc' = "done"]_vars
  /\ []((req.op = "erase_sector" /\ (ui.Text = EnterOnly \/ ui.String = "\r"))
          => (hwLog = << >> /\ flash = flashAtEntry))
  /\ []((req.op = "erase_sector" /\ ui.String = "\r") => Returned)
  /\ []((req.op = "erase_sector" /\ hwLog # << >>)
          => /\ ui.String \in {"Y", "y"}
             /\ ui.SectorOffset % FLASH_SECTOR_SIZE = 0)

C30_Witness ==
  /\ req.op = "erase_sector" /\ pc = "done" /\ ui.Text = EnterOnly
  /\ ui.SectorOffset % FLASH_SECTOR_SIZE # 0
  /\ hwLog = << >> /\ ui.String = ""

(* ------------------------- claims, flash_test ------------------------- *)
\* the hardware erases issued so far
ErasesSoFar == SelectSeq(hwLog, IsErase)

\* C14: in a confirmed run of flash_test started with main() outside the RAM,
\* so that the guard of erase_all_flash trips, no hardware erase or program is
\* issued.
C14_AbortOnGuard ==
  (req.op = "test" /\ ft.confirmed /\ GuardTrips(mainAddr)) => hwLog = << >>

\* the patterns in the order 00/00, 55/55, AA/AA, 55/AA, AA/55
PatternOrder == << <<0, 0>>, <<85, 85>>, <<170, 170>>, <<85, 170>>, <<170, 85>> >>

\* C15: a confirmed run of flash_test makes TOTAL_CYCLES cycles of the five
\* patterns in the order 00/00, 55/55, AA/AA, 55/AA, AA/55: pass number
\* 5 * WriteCycle + Loop2UInt8 writes pattern Loop2UInt8, the passes are
\* counted one by one up to 5 * TOTAL_CYCLES, and WriteCycle never decreases
\* on its way from 0 to TOTAL_CYCLES.
C15_PatternSchedule ==
  /\ []((req.op = "test" /\ ft.confirmed)
          => /\ WriteCycle \in 0 .. TOTAL_CYCLES
             /\ ft.Loop2UInt8 \in 0 .. 4
             /\ ft.passes = 5 * WriteCycle + ft.Loop2UInt8
             /\ pc = "ft_write"
                  => /\ WriteCycle < TOTAL_CYCLES
                     /\ ft.Dum1Str = PatternOrder[ft.Loop2UInt8 + 1]
                     /\ FlashNewData = PatternBuffer(PatternOrder[ft.Loop2UInt8 + 1])
             /\ pc \in {"ft_report", "done"}
                  => (WriteCycle = TOTAL_CYCLES /\ ft.passes = 5 * TOTAL_CYCLES))
  /\ [][(req.op = "test" /\ ft.confirmed)
          => /\ WriteCycle' >= WriteCycle
             /\ WriteCycle' <= WriteCycle + 1
             /\ ft'.passes \in {ft.passes, ft.passes + 1}]_vars

C15_Witness ==
  /\ req.op = "test" /\ ft.confirmed /\ pc = "done"
  /\ ft.passes = 5 * TOTAL_CYCLES /\ WriteCycle = TOTAL_CYCLES
  /\ ft.Dum1Str = <<170, 85>>

\* the bytes outside the protected range hold pattern d up to offset lim
PatternWritten(d, lim) ==
  \A a \in FlashIdx \ ProtRange :
    a < lim => flash[a] = (IF a % 2 = 0 THEN d[1] ELSE d[2])

\* C16: in every pass of a confirmed run of flash_test, every sector has been
\* erased when the blank check starts, so that the region is blank but for the
\* protected bytes; the sectors are then written once each, in ascending
\* order, with the pattern buffer, and all have been when the read-back starts.
C16_PhaseOrdering ==
  (req.op = "test" /\ ft.confirmed)
    => /\ pc = "ft_blank"
            => /\ Len(ErasesSoFar) = (2 * ft.passes + 1) * NumSectors
               /\ BlankButProtected
       /\ pc = "ft_write"
            => /\ Len(ErasesSoFar)
                    = (2 * ft.passes + 1) * NumSectors + ft.SectorOffset \div FLASH_SECTOR_SIZE
               /\ PatternWritten(ft.Dum1Str, ft.SectorOffset)
               /\ \A a \in FlashIdx \ ProtRange : a >= ft.SectorOffset => flash[a] = ERASED
               /\ \A a \in ProtRange : flash[a] = flashAtEntry[a]

\* C17: when a confirmed run of flash_test has returned, every byte outside
\* the protected range is 0xFF, the protected bytes are as before the run, and
\* the last hardware operations are those of the final erase of every sector.
C17_FinalBlank ==
  (req.op = "test" /\ ft.confirmed /\ pc = "done")
    => /\ BlankButProtected
       /\ Len(hwLog) >= NumSectors + 1
       /\ LET last == SubSeq(hwLog, Len(hwLog) - NumSectors, Len(hwLog))
          IN /\ Len(SelectSeq(last, IsErase)) = NumSectors
             /\ \A k \in 1 .. Len(last) : last[k].op = "program"
                                            => last[k].off = PROT_SECTOR_OFFSET

\* the last verification is over and the next blank check has not been added
AfterVerify ==
  /\ req.op = "test" /\ ft.confirmed /\ ft.passes > 0
  /\ pc \in {"ea_entry", "ea_loop", "ft_blank", "ft_report", "done"}

\* cycle and pattern index of the last verification
LastCycle == (ft.passes - 1) \div 5
LastPattern == (ft.passes - 1) % 5

\* the running total is the one given for the last verification
TotalAsGiven ==
  /\ ft.TotalErrors
       = LastCycle * (TEST_RESULT_SIZE * 2 * 5) + TEST_RESULT_SIZE * 2 * (LastPattern + 1)
  /\ ft.TotalErrors = ft.normal

ProtNotBlank == {a \in ProtRange : flash[a] # ERASED}

\* protected bytes that differ from the byte of pattern d of their parity
ProtNotPattern(d) == {a \in ProtRange : flash[a] # (IF a % 2 = 0 THEN d[1] ELSE d[2])}

\* C26: in every pass of a confirmed run of flash_test the blank check adds to
\* TotalErrors the number of protected bytes that are not 0xFF and the
\* verification adds the number of protected bytes that differ from the pattern
\* byte of their parity, no byte outside the protected range being counted;
\* the final total is at most TEST_RESULT_SIZE * 2 * 5 * TOTAL_CYCLES.
C26_ExactAccounting ==
  /\ [][(req.op = "test" /\ pc = "ft_blank" /\ pc' = "ft_write")
          => /\ ft'.TotalErrors = ft.TotalErrors + Cardinality(ProtNotBlank)
             /\ \A a \in FlashIdx \ ProtRange : flash[a] = ERASED]_vars
  /\ [][(req.op = "test" /\ pc = "ft_write" /\ pc' = "ea_entry")
          => /\ ft'.TotalErrors = ft.TotalErrors + Cardinality(ProtNotPattern(ft.Dum1Str))
             /\ PatternWritten(ft.Dum1Str, FlashSize)]_vars
  /\ []((req.op = "test" /\ ft.confirmed) => ft.TotalErrors <= ExpectedErrors)

(* ------------- a run of flash_test under the 100 ms timer ------------- *)
\* the program runs from RAM, so the guard of erase_all_flash never trips
InitBlink ==
  /\ flash = FlashImage([i \in ProtIdx |-> 65 + i], "used")
  /\ FlashOldData = [i \in SectorIdx |-> 0]
  /\ FlashNewData = [i \in SectorIdx |-> 0]
  /\ heapCorrupt = FALSE
  /\ PRIMASK = 0
  /\ timerPending = FALSE
  /\ timerArmed = TRUE
  /\ tm = NoTimer
  /\ led = FALSE
  /\ SoftwareMode = MODE_FLASH_TEST
  /\ WriteCycle = 0
  /\ mainAddr = RAM_LOW
  /\ req = [op |-> "test", off |-> 0, size |-> 0, d0 |-> 0, d1 |-> 0]
  /\ pc = "ft_start"
  /\ fw = IdleWrite
  /\ fe = IdleErase
  /\ rc = -1
  /\ hwLog = << >>
  /\ flashAtEntry = flash
  /\ maskAtEntry = PRIMASK
  /\ bc = IdleScan
  /\ ft = IdleTest
  /\ ea = IdleEraseAll
  /\ ui = IdleInput
  /\ align = IdleAlign

NextBlink ==
  \/ FlashTestDecline
  \/ FlashTestConfirm
  \/ EraseAllBegin
  \/ EraseAllSector
  \/ EraseAllReturn
  \/ FlashTestBlankCheck
  \/ FlashTestWriteSector
  \/ FlashTestVerify
  \/ FlashTestReport
  \/ MainLoopEnd
  \/ DisplayIdLedOn
  \/ DisplayIdLedOff
  \/ TimerAlarm
  \/ TimerDispatch

SpecBlink == InitBlink /\ [][NextBlink]_vars

(* --------------------------- claims, timer ---------------------------- *)
\* the step is a run of timer_callback_ms
CallbackStep == timerPending /\ ~timerPending'

\* what the main context owns: the progress flags, the staging buffers, the
\* flash and the position and locals of the functions of the main context
mainOwned == <<SoftwareMode, WriteCycle, FlashOldData, FlashNewData, flash, hwLog,
               pc, fw, fe, rc, bc, ft, ea, ui>>

\* C18: a run of timer_callback_ms leaves SoftwareMode, WriteCycle and the
\* staging buffers as they were, issues no hardware operation and moves none
\* of flash_erase, flash_write, flash_blank_check; its effect on its statics
\* and on the LED is a function of the statics, SoftwareMode and WriteCycle
\* alone; every step that changes SoftwareMode, WriteCycle or a staging buffer
\* is a step of the main context.
C18_InterruptBoundary ==
  /\ [][CallbackStep
          => /\ UNCHANGED mainOwned
             /\ <<tm', led'>> = TimerCallback(tm, led, SoftwareMode, WriteCycle)]_vars
  /\ [][(<<SoftwareMode, WriteCycle, FlashOldData, FlashNewData>>'
           # <<SoftwareMode, WriteCycle, FlashOldData, FlashNewData>>)
          => (pc' # pc \/ ft' # ft \/ ea' # ea \/ pc = "done") /\ UNCHANGED timerVars]_vars

C18_Witness ==
  /\ req.op = "test" /\ pc = "ft_write" /\ WriteCycle = 1
  /\ led /\ tm.CycleCount = 2 /\ tm.FlagCurrentBlink = FLAG_ON
  /\ timerPending
  /\ FlashNewData = PatternBuffer(<<85, 170>>)

(* ------------------- the alignment loops, step by step ---------------- *)
\* the test of both loops: while (offset % FLASH_SECTOR_SIZE)
NeedsAlign(off) == off % FLASH_SECTOR_SIZE # 0

\* lines 1572-1573: --SectorOffset; ++FlashMemoryOffset
WriteAlignNext(a) ==
  [SectorOffset |-> a.SectorOffset - 1, FlashMemoryOffset |-> a.FlashMemoryOffset + 1]

\* variant: the offset is left as it is
EraseAlignNext_Stuck(off) == off

\* line 1206: ++FlashMemoryOffset, a UINT32
EraseAlignNext(off) == (off + 1) % U32

\* lines 1570-1574: one iteration of the loop of flash_write
FlashWriteAlignStep ==
  /\ pc = "fw_align"
  /\ NeedsAlign(align.SectorOffset)
  /\ align' = WriteAlignNext(align)
  /\ UNCHANGED <<flash, FlashOldData, FlashNewData, heapCorrupt, PRIMASK, timerVars,
                 modeVars, pc, req, fw, fe, rc, hwLog, flashAtEntry, maskAtEntry, bc, ft, ea,
                 ui>>

\* lines 1561, 1570: SectorOffset is aligned, flash_write goes on to line 1584
FlashWriteAligned ==
  /\ pc = "fw_align"
  /\ ~NeedsAlign(align.SectorOffset)
  /\ pc' = "fw_entry"
  /\ UNCHANGED <<flash, FlashOldData, FlashNewData, heapCorrupt, PRIMASK, timerVars,
                 modeVars, req, fw, fe, rc, hwLog, flashAtEntry, maskAtEntry, bc, ft, ea,
                 ui, align>>

\* lines 1205-1206: one iteration of the loop of flash_erase
FlashEraseAlignStep ==
  /\ pc = "fe_align"
  /\ NeedsAlign(align.FlashMemoryOffset)
  /\ align' = [align EXCEPT !.FlashMemoryOffset = EraseAlignNext(@)]
  /\ UNCHANGED <<flash, FlashOldData, FlashNewData, heapCorrupt, PRIMASK, timerVars,
                 modeVars, pc, req, fw, fe, rc, hwLog, flashAtEntry, maskAtEntry, bc, ft, ea,
                 ui>>

\* lines 1200, 1205: the offset is aligned, flash_erase goes on to line 1216
FlashEraseAligned ==
  /\ pc = "fe_align"
  /\ ~NeedsAlign(align.FlashMemoryOffset)
  /\ pc' = "fe_entry"
  /\ UNCHANGED <<flash, FlashOldData, FlashNewData, heapCorrupt, PRIMASK, timerVars,
                 modeVars, req, fw, fe, rc, hwLog, flashAtEntry, maskAtEntry, bc, ft, ea,
                 ui, align>>

(* ------------------ runs of the main context to the end --------------- *)
\* a call of flash_write or flash_erase entered at its alignment loop
InitAligning ==
  /\ flash = FlashImage([i \in ProtIdx |-> 65 + i], "used")
  /\ FlashOldData = [i \in SectorIdx |-> 0]
  /\ FlashNewData = [i \in SectorIdx |-> 0]
  /\ heapCorrupt = FALSE
  /\ PRIMASK = 0
  /\ timerPending = FALSE
  /\ timerArmed = TRUE
  /\ tm = NoTimer
  /\ led = FALSE
  /\ SoftwareMode = MODE_ERASE_SECTOR
  /\ WriteCycle = 0
  /\ mainAddr = RAM_LOW
  /\ req \in Requests
  /\ pc = IF req.op = "write" THEN "fw_align" ELSE "fe_align"
  /\ fw = IF req.op = "write"
            THEN [IdleWrite EXCEPT !.FlashMemoryOffset = req.off,
                                   !.Data = [kind |-> "pat", d0 |-> req.d0, d1 |-> req.d1],
                                   !.DataSize = req.size, !.caller = "caller"]
            ELSE IdleWrite
  /\ fe = IF req.op = "erase" THEN [IdleErase EXCEPT !.FlashMemoryOffset = req.off]
          ELSE IdleErase
  /\ rc = -1
  /\ hwLog = << >>
  /\ flashAtEntry = flash
  /\ maskAtEntry = PRIMASK
  /\ bc = IdleScan
  /\ ft = IdleTest
  /\ ea = IdleEraseAll
  /\ ui = IdleInput
  /\ align = IF req.op = "write"
               THEN [SectorOffset |-> req.off, FlashMemoryOffset |-> 0]
               ELSE [SectorOffset |-> 0, FlashMemoryOffset |-> req.off]

\* the scans start from the contents of FlashInits
InitLive == InitAligning \/ (flash \in FlashInits /\ InitScan) \/ InitTest

NextLive ==
  \/ FlashWriteAlignStep
  \/ FlashWriteAligned
  \/ FlashEraseAlignStep
  \/ FlashEraseAligned
  \/ FlashWriteReject
  \/ FlashWriteStage
  \/ FlashWriteMask
  \/ FlashWriteHwErase
  \/ FlashWriteHwProgram
  \/ FlashWriteReturn
  \/ FlashEraseDelegate
  \/ FlashErasePlain
  \/ FlashEraseMask
  \/ FlashEraseHwErase
  \/ FlashEraseRestore
  \/ FlashEraseReturn
  \/ BlankCheckEntry
  \/ BlankCheckLine
  \/ BlankCheckReturn
  \/ FlashTestDecline
  \/ FlashTestConfirm
  \/ EraseAllGuarded
  \/ EraseAllBegin
  \/ EraseAllSector
  \/ EraseAllReturn
  \/ FlashTestBlankCheck
  \/ FlashTestWriteSector
  \/ FlashTestVerify
  \/ FlashTestReport

\* every hardware and console operation returns, so the main context always
\* takes its next step
SpecLive == InitLive /\ [][NextLive]_vars /\ WF_vars(NextLive)

(* ------------------------ claims, termination ------------------------- *)
\* C27: every call returns.  A confirmed run of flash_test returns after
\* 5 * TOTAL_CYCLES passes, its report being reached from the last call of
\* erase_all_flash, which with main() in RAM erases every sector once more;
\* the alignment loops of flash_write and flash_erase end, for every offset,
\* with the offsets on which the call goes on; flash_blank_check returns
\* once Loop1UInt32 has passed the whole region.
C27_Termination ==
  /\ <>(pc = "done")
  /\ []((req.op = "test" /\ ft.confirmed /\ pc = "done")
          => /\ ft.passes = 5 * TOTAL_CYCLES
             /\ ~GuardTrips(mainAddr)
                  => /\ Len(ErasesSoFar) = (2 * 5 * TOTAL_CYCLES + 1) * NumSectors
                     /\ BlankButProtected)
  /\ [][(pc' = "ft_report" /\ pc # "ft_report")
          => (pc \in {"ea_entry", "ea_loop"} /\ ft.passes = 5 * TOTAL_CYCLES)]_vars
  /\ []((req.op = "write" /\ pc \notin {"fw_align", "fw_entry"})
          => /\ fw.SectorOffset = align.SectorOffset
             /\ fw.FlashMemoryOffset = align.FlashMemoryOffset)
  /\ []((req.op = "erase" /\ pc \notin {"fe_align", "fe_entry"})
          => fe.FlashMemoryOffset = align.FlashMemoryOffset)
  /\ []((req.op = "scan" /\ pc = "done") => bc.Loop1UInt32 >= EndOffset)

C27_Witness ==
  /\ req.op = "test" /\ ft.confirmed /\ pc = "done" /\ ~GuardTrips(mainAddr)
  /\ ft.passes = 5 * TOTAL_CYCLES
  /\ Len(ErasesSoFar) = (2 * 5 * TOTAL_CYCLES + 1) * NumSectors
  /\ \E a \in FlashIdx \ ProtRange : flashAtEntry[a] # ERASED

(* ------------------------ claims, blink bursts ------------------------ *)
\* a blink burst is in progress
InBurst == tm.FlagCurrentBlink = FLAG_ON

\* the step is a run of timer_callback_ms during the flash test
TestTick == CallbackStep /\ SoftwareMode = MODE_FLASH_TEST

\* C31: during the flash test a burst starts on the 150th tick counted since
\* the last one ended; in a burst the LED goes on after 3 ticks off and off
\* after 2 ticks on, CycleCount counts the times it went on, and the burst
\* ends, when the LED goes off, with CycleCount equal to WriteCycle + 1, the
\* LED off and the counters and flags reset.
C31_BlinkCount ==
  /\ [](SoftwareMode = MODE_FLASH_TEST
          => /\ ~InBurst => (/\ tm.MSecCounter < 15 * 10 /\ tm.CycleCount = 0
                             /\ tm.FlagLedStatus = FLAG_OFF /\ ~led)
             /\ InBurst => /\ tm.CycleCount <= WriteCycle + 1
                           /\ led <=> tm.FlagLedStatus = FLAG_ON
                           /\ led => (tm.MSecCounter <= 1 /\ tm.CycleCount >= 1)
                           /\ ~led => tm.MSecCounter <= 2)
  /\ [][TestTick
          => /\ (~InBurst /\ tm.MSecCounter + 1 < 15 * 10)
                  => (tm' = [tm EXCEPT !.MSecCounter = tm.MSecCounter + 1] /\ led' = led)
             /\ (~InBurst /\ tm.MSecCounter + 1 >= 15 * 10)
                  => (tm' = [tm EXCEPT !.MSecCounter = 0, !.FlagCurrentBlink = FLAG_ON]
                      /\ led' = led)
             /\ (InBurst /\ ~led)
                  => IF tm.MSecCounter = 2
                       THEN /\ led'
                            /\ tm' = [tm EXCEPT !.MSecCounter = 0, !.FlagLedStatus = FLAG_ON,
                                                !.CycleCount = tm.CycleCount + 1]
                       ELSE ~led' /\ tm' = [tm EXCEPT !.MSecCounter = tm.MSecCounter + 1]
             /\ (InBurst /\ led)
                  => IF tm.MSecCounter = 1
                       THEN /\ ~led'
                            /\ IF tm.CycleCount = WriteCycle + 1
                                 THEN tm' = NoTimer
                                 ELSE tm' = [tm EXCEPT !.MSecCounter = 0,
                                                       !.FlagLedStatus = FLAG_OFF]
                       ELSE led' /\ tm' = [tm EXCEPT !.MSecCounter = tm.MSecCounter + 1]]_vars

C31_Witness ==
  /\ SoftwareMode = MODE_FLASH_TEST /\ WriteCycle = 2
  /\ InBurst /\ led /\ tm.CycleCount = 3 /\ tm.MSecCounter = 1 /\ timerPending

\* C32: every blink burst of a flash_test run, those of the final erase
\* included, ends after at least 1 and at most TOTAL_CYCLES LED-on transitions.
C32_BurstWithinCycles ==
  [][(InBurst /\ ~InBurst') => tm.CycleCount \in 1..TOTAL_CYCLES]_vars

\* C33: a run of timer_callback_ms with SoftwareMode other than
\* MODE_FLASH_TEST leaves the LED output and its four statics as they were,
\* and every run of it returns true, which keeps the repeating timer installed.
C33_InertOutsideTest ==
  /\ [][(CallbackStep /\ SoftwareMode # MODE_FLASH_TEST)
          => (led' = led /\ tm' = tm)]_vars
  /\ [][CallbackStep => timerArmed']_vars

C33_Witness ==
  /\ SoftwareMode = MODE_UNDEFINED /\ pc = "loop_top"
  /\ timerPending /\ timerArmed
  /\ InBurst /\ led /\ tm.MSecCounter = 1

\* the step is a write of the LED output by the main context
MainLedWrite == pc \in {"loop_top", "id_adc"} /\ pc' # pc

\* C34: in every interleaving of the callback with the main context, the main
\* context writes the LED only while SoftwareMode is not MODE_FLASH_TEST and
\* the callback changes it only while SoftwareMode is MODE_FLASH_TEST; the
\* callback's statics change in callback runs only, and a callback run leaves
\* every variable of the main context as it was.
C34_DisjointWriters ==
  /\ [][MainLedWrite => (~CallbackStep /\ SoftwareMode # MODE_FLASH_TEST)]_vars
  /\ [][led' # led
          => IF CallbackStep THEN SoftwareMode = MODE_FLASH_TEST
                             ELSE MainLedWrite]_vars
  /\ [][tm' # tm => CallbackStep]_vars
  /\ [][CallbackStep
          => UNCHANGED <<SoftwareMode, WriteCycle, mainAddr, flash, FlashOldData,
                         FlashNewData, PRIMASK, pc, ft, ea, fe, fw, bc>>]_vars

C34_Witness ==
  /\ pc = "id_adc" /\ SoftwareMode = MODE_UNDEFINED /\ led
  /\ InBurst /\ tm.FlagLedStatus = FLAG_OFF /\ timerPending

====
